---------------------------- MODULE Spec2Model ----------------------------
(***************************************************************************)
(* Filing retrieval and extraction pipeline of the activist-intel          *)
(* repository: SECFetcher (tools/sec_fetcher.py), LandingAIDirectExtractor *)
(* (tools/ade_extractor.py), MarketDataFetcher (tools/market_data.py) and  *)
(* the stages of ActivistIntelOrchestrator.analyze_company                 *)
(* (orchestrator.py) that read the extracted bundle.                       *)
(*                                                                         *)
(* Eight specifications share the variables:                               *)
(*   SpecParse    _parse_atom_feed applied to a bounded feed               *)
(*   SpecResolve  _get_cik against a registry snapshot                     *)
(*   Spec         fetch_filings: resolution, feed queries, downloads       *)
(*   SpecFair     Spec with a running call of fetch_filings going on       *)
(*   SpecExtract  extract_from_10k / extract_from_proxy / extract_from_8k  *)
(*   SpecResponse _parse_api_response applied to one response body         *)
(*   SpecMarket   get_market_data called repeatedly on one fetcher         *)
(*   SpecPipeline process_all_documents followed by analyze_company        *)
(***************************************************************************)
EXTENDS Integers, Sequences, FiniteSets, TLC

VARIABLES
    \* ---- _parse_atom_feed -------------------------------------------------
    xml_content,    \* the feed: a sequence of <entry> blocks
    years,          \* the lookback argument
    now,            \* datetime.now() read by the parser: <<day number, time of day>>
    filings,        \* the list _parse_atom_feed returns
    ppc,            \* "start" | "parsed" ("idle" outside SpecParse)
    \* ---- SECFetcher -------------------------------------------------------
    ticker_arg,     \* the ticker SECFetcher was constructed with
    snapshot,       \* the registry snapshot the lookup is served
    ticker,         \* self.ticker
    cik,            \* self.cik: a digit string, <<>> for None
    company_name,   \* self.company_name
    fpc,            \* position in fetch_filings: "idle" | "types" | "download" |
                    \* "alternate" | "returned" | "raised"
    lookup,         \* what _get_cik met in the current call
    filing_types,   \* argument of the current call
    ti,             \* index of the filing type being fetched
    results,        \* the dict fetch_filings builds: filing type -> list
    located,        \* filings[:3] of the type being fetched
    di,             \* index of the filing being downloaded
    downloaded,     \* the list _fetch_filing_type builds
    dl,             \* the current _download_filing call: its GETs and result
    sent,           \* requests issued in the current call, by kind
    files,          \* the cache directory: path -> content
    fetched,        \* filing types queried so far on this fetcher
    log,            \* what the current call did since its last pause, in order
    \* ---- LandingAIDirectExtractor -----------------------------------------
    api_key,        \* self.api_key
    doc_type,       \* which extract_from_* is called
    file_path,      \* its file_path argument
    file,           \* the file at that path: [exists, text]
    api_outcome,    \* what the extraction endpoint did with the POST
    ext_result,     \* the value the call returned
    ext_raised,     \* whether the call raised instead of returning
    posts,          \* the POSTs sent to the endpoint
    doc_content,    \* what _prepare_document_content returned to the call
    epc,            \* "start" | "done"
    \* ---- ActivistIntelOrchestrator.analyze_company -------------------------
    extracted_data, \* the bundle process_all_documents returned
    market_data,    \* get_market_data's record
    stage,          \* the stage analyze_company runs next
    error,          \* the exception analyze_company propagated, or None
    llm_key,        \* self.llm_key
    \* ---- MarketDataFetcher ------------------------------------------------
    cache,          \* self.cache: ticker -> record
    market_ticker,  \* the ticker argument of the last get_market_data call
    info,           \* what the data source did in that call, NotAsked if not asked
    market_call     \* how that call ended: "cached" | "fetched" | "failed"

parseVars == <<xml_content, years, now, filings, ppc>>
fetchVars == <<ticker_arg, snapshot, ticker, cik, company_name, fpc, lookup,
               filing_types, ti, results, located, di, downloaded, dl, sent,
               files, fetched, log>>

extractVars == <<api_key, doc_type, file_path, file, api_outcome, ext_result,
                 ext_raised, posts, doc_content, epc>>

pipelineVars == <<extracted_data, market_data, stage, error, llm_key>>

marketVars == <<cache, market_ticker, info, market_call>>

vars == <<parseVars, fetchVars, extractVars, pipelineVars, marketVars>>

None == "None"

(***************************************************************************)
(* Text.  A string over the alphabet [-0-9] is a sequence of characters;   *)
(* a digit is its value and the dash is Dash.  Dash < 0 < ... < 9 is the   *)
(* code point order of these characters, which Python's str comparison     *)
(* uses.                                                                   *)
(***************************************************************************)
Dash == -1

\* Python str "<": lexicographic by code point, a proper prefix is smaller.
RECURSIVE StrLess(_, _)
StrLess(a, b) ==
    IF b = <<>> THEN FALSE
    ELSE IF a = <<>> THEN TRUE
    ELSE IF Head(a) # Head(b) THEN Head(a) < Head(b)
    ELSE StrLess(Tail(a), Tail(b))

\* The fields of s between dashes, as str.split('-') yields them.
RECURSIVE SplitDash(_, _, _)
SplitDash(s, cur, acc) ==
    IF s = <<>> THEN Append(acc, cur)
    ELSE IF Head(s) = Dash THEN SplitDash(Tail(s), <<>>, Append(acc, cur))
    ELSE SplitDash(Tail(s), Append(cur, Head(s)), acc)

RECURSIVE DigitsValue(_, _)
DigitsValue(s, n) ==
    IF s = <<>> THEN n ELSE DigitsValue(Tail(s), 10 * n + Head(s))

(***************************************************************************)
(* Calendar arithmetic of datetime (proleptic Gregorian).                  *)
(***************************************************************************)
IsLeap(y) == (y % 4 = 0) /\ ((y % 100 # 0) \/ (y % 400 = 0))

DaysInMonth(y, m) ==
    IF m = 2 THEN (IF IsLeap(y) THEN 29 ELSE 28)
    ELSE IF m \in {4, 6, 9, 11} THEN 30 ELSE 31

\* Day number of the civil date y-m-d (days since 1970-01-01).
DayNumber(y, m, d) ==
    LET yy  == IF m <= 2 THEN y - 1 ELSE y
        era == yy \div 400
        yoe == yy - era * 400
        mp  == (m + 9) % 12
        doy == (153 * mp + 2) \div 5 + d - 1
        doe == yoe * 365 + yoe \div 4 - yoe \div 100 + doy
    IN  era * 146097 + doe - 719468

\* datetime.strptime(s, '%Y-%m-%d'): %Y is exactly four digits, %m and %d
\* one or two digits with or without a leading zero; the date must exist.
\* ok = FALSE stands for the ValueError.
strptime(s) ==
    LET f == SplitDash(s, <<>>, <<>>)
        wellFormed ==
            /\ Len(f) = 3
            /\ Len(f[1]) = 4
            /\ Len(f[2]) \in {1, 2}
            /\ Len(f[3]) \in {1, 2}
        y == DigitsValue(f[1], 0)
        m == DigitsValue(f[2], 0)
        d == DigitsValue(f[3], 0)
    IN  IF wellFormed /\ m \in 1..12 /\ d >= 1 /\ d <= DaysInMonth(y, m)
        THEN [ok |-> TRUE, day |-> DayNumber(y, m, d)]
        ELSE [ok |-> FALSE, day |-> 0]

\* a < b for two instants <<day, time of day>>.
InstantLess(a, b) == a[1] < b[1] \/ (a[1] = b[1] /\ a[2] < b[2])

\* cutoff_date = datetime.now() - timedelta(days=365 * years)
cutoff_date(nw, yrs) == <<nw[1] - 365 * yrs, nw[2]>>

(***************************************************************************)
(* _parse_atom_feed.  An <entry> block is the record of what the parser's  *)
(* regular expressions can see in it:                                      *)
(*   date    content of <filing-date>, <<>> when the tag is missing or its *)
(*           content is not in [\d-]+                                      *)
(*   nunber  content of <accession-nunber>, <<>> when there is no such tag *)
(*           with content in [\d-]+                                        *)
(*   number  content of <accession-number>, <<>> likewise                  *)
(*   attr    value following accession_number= / accession-number: text,   *)
(*           <<>> when there is none                                       *)
(*   href    content of <filing-href> ("" when empty), None when missing   *)
(* The groups [\d-]+ and [0-9-]+ never match the empty string, so <<>>     *)
(* stands for "no match" without standing for any matched text.            *)
(***************************************************************************)

\* re.search(r'<filing-date>([\d-]+)</filing-date>', entry)
date_match(entry) == entry.date # <<>>

\* Lines 144-147: the dedicated tag first, then the generic pattern
\* accession[_-]?number[=:]([0-9-]+).  The generic pattern needs '=' or ':'
\* after the word, so the tag <accession-number>...</accession-number>,
\* where '>' follows the word, does not match it.
acc_match_noalt(entry) == entry.nunber
acc_match(entry) ==
    IF entry.nunber # <<>> THEN entry.nunber ELSE entry.attr

\* Line 140: the entry is skipped when filing_date < cutoff_date.
before_cutoff_never(filing_date, cutoff) == FALSE
before_cutoff(filing_date, cutoff) == InstantLess(filing_date, cutoff)

\* One pass of the loop body, lines 130-165: the list with the entry's
\* record appended, or unchanged when the entry is skipped.
parse_entry_abort(entry, acc, cutoff) ==
    IF ~date_match(entry) THEN acc
    ELSE LET p == strptime(entry.date) IN
         IF ~p.ok THEN <<>>
         ELSE IF before_cutoff(<<p.day, 0>>, cutoff) THEN acc
         ELSE IF acc_match(entry) = <<>> THEN acc
         ELSE Append(acc, [date |-> entry.date,
                           accession |-> acc_match(entry),
                           url |-> entry.href])
parse_entry(entry, acc, cutoff) ==
    IF ~date_match(entry) THEN acc
    ELSE LET p == strptime(entry.date) IN
         IF ~p.ok THEN acc
         ELSE IF before_cutoff(<<p.day, 0>>, cutoff) THEN acc
         ELSE IF acc_match(entry) = <<>> THEN acc
         ELSE Append(acc, [date |-> entry.date,
                           accession |-> acc_match(entry),
                           url |-> entry.href])

RECURSIVE parse_entries(_, _, _)
parse_entries(entries, acc, cutoff) ==
    IF entries = <<>> THEN acc
    ELSE parse_entries(Tail(entries), parse_entry(Head(entries), acc, cutoff), cutoff)

\* list.sort(key=lambda x: x['date'], reverse=True): a stable sort, largest
\* date STRING first; equal keys keep their order.
RECURSIVE InsertDesc(_, _)
InsertDesc(x, sorted) ==
    IF sorted = <<>> THEN <<x>>
    ELSE IF StrLess(Head(sorted).date, x.date) THEN <<x>> \o sorted
    ELSE <<Head(sorted)>> \o InsertDesc(x, Tail(sorted))

RECURSIVE InsertAsc(_, _)
InsertAsc(x, sorted) ==
    IF sorted = <<>> THEN <<x>>
    ELSE IF StrLess(x.date, Head(sorted).date) THEN <<x>> \o sorted
    ELSE <<Head(sorted)>> \o InsertAsc(x, Tail(sorted))

RECURSIVE SortAsc(_, _)
SortAsc(list, sorted) ==
    IF list = <<>> THEN sorted
    ELSE SortAsc(Tail(list), InsertAsc(Head(list), sorted))

RECURSIVE SortDesc(_, _)
SortDesc(list, sorted) ==
    IF list = <<>> THEN sorted
    ELSE SortDesc(Tail(list), InsertDesc(Head(list), sorted))

sort_by_date_ascending(list) == SortAsc(list, <<>>)
sort_by_date(list) == SortDesc(list, <<>>)

_parse_atom_feed(xml, yrs, nw) ==
    sort_by_date(parse_entries(xml, <<>>, cutoff_date(nw, yrs)))


(***************************************************************************)
(* SECFetcher: resolution.                                                 *)
(***************************************************************************)
\* str.upper() on the ticker texts of the model.
upper(t) ==
    CASE t \in {"aapl", "Aapl"} -> "AAPL"
      [] t = "aap" -> "AAP"
      [] t = "aaplx" -> "AAPLX"
      [] t = "msft" -> "MSFT"
      [] t = "zzzz" -> "ZZZZ"
      [] OTHER -> t

\* str(n) for n >= 0, as a digit string.
RECURSIVE str(_)
str(n) == IF n < 10 THEN <<n>> ELSE Append(str(n \div 10), n % 10)

\* s.zfill(w)
RECURSIVE zfill(_, _)
zfill(s, w) == IF Len(s) >= w THEN s ELSE zfill(<<0>> \o s, w)

\* The snapshot served at /files/company_tickers.json, in data.values() order.
Registry ==
    << [ticker |-> "MSFT", cik_str |-> 789019, title |-> "MICROSOFT CORP"],
       [ticker |-> "aapl", cik_str |-> 320193, title |-> "Apple Inc."] >>

RegistryOutcomes == {"ok", "network_error", "http_error", "bad_json"}

\* The loop of lines 38-45: the first entry whose ticker matches, 0 if none.
RECURSIVE find_entry(_, _, _)
\* The same loop comparing the entry's ticker as it is spelled.
RECURSIVE find_entry_as_spelled(_, _, _)
find_entry_as_spelled(data, t, i) ==
    IF i > Len(data) THEN 0
    ELSE IF data[i].ticker = t THEN i
    ELSE find_entry_as_spelled(data, t, i + 1)

find_entry(data, t, i) ==
    IF i > Len(data) THEN 0
    ELSE IF upper(data[i].ticker) = t THEN i
    ELSE find_entry(data, t, i + 1)

\* _get_cik: what it assigns and whether it raises.  Every exception of the
\* try block (requests.get, raise_for_status, response.json, the ValueError
\* of line 45) reaches the handler of lines 47-49, which re-raises it.
_get_cik_swallow(outcome, data, t) ==
    LET i == IF outcome = "ok" THEN find_entry(data, t, 1) ELSE 0 IN
    IF i # 0
    THEN [raised |-> FALSE, cik |-> zfill(str(data[i].cik_str), 10),
          company_name |-> data[i].title, met |-> "found"]
    ELSE [raised |-> FALSE, cik |-> <<>>, company_name |-> None,
          met |-> IF outcome = "ok" THEN "absent" ELSE outcome]
_get_cik(outcome, data, t) ==
    LET i == IF outcome = "ok" THEN find_entry(data, t, 1) ELSE 0 IN
    IF i # 0
    THEN [raised |-> FALSE, cik |-> zfill(str(data[i].cik_str), 10),
          company_name |-> data[i].title, met |-> "found"]
    ELSE [raised |-> TRUE, cik |-> <<>>, company_name |-> None,
          met |-> IF outcome = "ok" THEN "absent" ELSE outcome]

(***************************************************************************)
(* SECFetcher: download.                                                   *)
(***************************************************************************)
\* accession.replace('-', '')
no_dash(acc) == SelectSeq(acc, LAMBDA c : c # Dash)

\* str(int(self.cik)): the CIK without its leading zeros.
cik_no_pad(c) == str(DigitsValue(c, 0))

\* Lines 179-186: the feed's URL when filing.get('url') is truthy, else the
\* archive URL.
doc_url_padded(filing, c) ==
    IF filing.url # None /\ filing.url # ""
    THEN [kind |-> "feed", href |-> filing.url, cik |-> <<>>, nodash |-> <<>>,
          acc |-> <<>>]
    ELSE [kind |-> "archive", href |-> "", cik |-> c,
          nodash |-> no_dash(filing.accession), acc |-> filing.accession]
doc_url(filing, c) ==
    IF filing.url # None /\ filing.url # ""
    THEN [kind |-> "feed", href |-> filing.url, cik |-> <<>>, nodash |-> <<>>,
          acc |-> <<>>]
    ELSE [kind |-> "archive", href |-> "", cik |-> cik_no_pad(c),
          nodash |-> no_dash(filing.accession), acc |-> filing.accession]

\* Line 228: the viewer URL, with self.cik as stored.
viewer_url(filing, c) ==
    [kind |-> "viewer", href |-> "", cik |-> c, nodash |-> <<>>,
     acc |-> filing.accession]

\* filing_type.replace(' ', '_').replace('/', '-')
safe_type(t) ==
    CASE t = "DEF 14A" -> "DEF_14A"
      [] t = "10-K/A" -> "10-K-A"
      [] OTHER -> t

\* Lines 189-195: data/cache/{ticker}/{ticker}_{safe_type}_{date}.html
filepath(t, filing_type, date) ==
    [dir |-> t, ticker |-> t, type |-> safe_type(filing_type), date |-> date,
     ext |-> "html"]

\* The body the registry serves for a URL: the document of that accession
\* as the archive or feed link shows it, or as the viewer renders it.
Body(url, filing) ==
    IF url.kind = "viewer" THEN filing.accession \o <<0>> ELSE filing.accession

\* A record whose size is that of the document as first asked for, whichever
\* URL served it.
download_record_first_size(filing, url, path, content) ==
    [date |-> filing.date, url |-> url, path |-> path,
     size |-> Len(filing.accession), accession |-> filing.accession]

\* The dict a successful download returns (lines 210-216 and 239-245).
download_record(filing, url, path, content) ==
    [date |-> filing.date, url |-> url, path |-> path, size |-> Len(content),
     accession |-> filing.accession]

\* d[k] = v on a dict.
Put(d, k, v) == [x \in (DOMAIN d) \cup {k} |-> IF x = k THEN v ELSE d[x]]

\* The cache file opened for writing before the request is made: a failed
\* request leaves it empty.
write_response_opened_first(disk, path, ok, body) ==
    IF ok THEN Put(disk, path, body) ELSE Put(disk, path, <<>>)

\* Lines 200-205 and 230-234: the GET and raise_for_status come first and
\* raise when the request fails; open(filepath, 'wb') and write follow.
write_response(disk, path, ok, body) ==
    IF ok THEN Put(disk, path, body) ELSE disk

\* filings[:4], a slice that lets a fourth filing through.
Take_one_more(list, n) == SubSeq(list, 1, IF Len(list) < n + 1 THEN Len(list) ELSE n + 1)

\* list[:n]
Take(list, n) == SubSeq(list, 1, IF Len(list) < n THEN Len(list) ELSE n)

NoDownload == [filing |-> [date |-> <<>>, accession |-> <<>>, url |-> None],
               gets |-> <<>>, returned |-> "pending"]
NothingSent == [registry |-> 0, feed |-> 0, doc |-> 0]

\* The effects a call has outside the fetcher, as entries of its log: the
\* feed query, a document GET and how it ended, the cache file written from
\* a response, and time.sleep(0.2).
FeedQuery(ok) == [e |-> "feed", ok |-> ok]
DocGet(filing, url, ok) == [e |-> "get", filing |-> filing, url |-> url, ok |-> ok]
FileWrite(path, body) == [e |-> "write", path |-> path, body |-> body]
Pause == [e |-> "sleep"]

(***************************************************************************)
(* LandingAIDirectExtractor (src/tools/ade_extractor.py).                  *)
(*                                                                         *)
(* A Python value is a record of one shape: kind says which value it is,   *)
(* fields holds a dict's entries, items a list's elements, num a number    *)
(* (sign and decimal digits: the synthetic figures exceed 32 bits) and     *)
(* text a string.  An exception travelling up the stack is the value of    *)
(* kind "raise", so that every try/except of the code is a test in the     *)
(* model.                                                                  *)
(***************************************************************************)
NoFields == [k \in {} |-> 0]
N0 == [neg |-> FALSE, int |-> <<0>>, frac |-> <<>>]
Value(kind, fields, items, num, text) ==
    [kind |-> kind, fields |-> fields, items |-> items, num |-> num, text |-> text]

NoneValue == Value("null", NoFields, <<>>, N0, "")
Raise(what) == Value("raise", NoFields, <<>>, N0, what)
Dict(fields) == Value("dict", fields, <<>>, N0, "")
List(items) == Value("list", NoFields, items, N0, "")
Str(text) == Value("str", NoFields, <<>>, N0, text)
Bool(b) == Value("bool", NoFields, <<>>, [N0 EXCEPT !.int = IF b THEN <<1>> ELSE <<0>>], "")
IntValue(digits) == Value("num", NoFields, <<>>, [N0 EXCEPT !.int = digits], "")
Neg(digits) == Value("num", NoFields, <<>>, [N0 EXCEPT !.neg = TRUE, !.int = digits], "")
Float(int, frac) == Value("num", NoFields, <<>>, [N0 EXCEPT !.int = int, !.frac = frac], "")

\* n * 10^6 as an int value: 383_285_000_000 is Millions(383285).
Millions(n) == IntValue(str(n) \o <<0, 0, 0, 0, 0, 0>>)

\* x != 0 and x > 0 on a number.
NonZero(num) == \E i \in DOMAIN (num.int \o num.frac) : (num.int \o num.frac)[i] # 0
Positive(num) == ~num.neg /\ NonZero(num)

\* bool(v): the test `if result` applies.
Truthy(v) ==
    CASE v.kind = "null" -> FALSE
      [] v.kind = "dict" -> DOMAIN v.fields # {}
      [] v.kind = "list" -> v.items # <<>>
      [] v.kind = "str" -> v.text # ""
      [] OTHER -> NonZero(v.num)

\* key in v, for a str key: a dict's keys, a list's elements, a string's
\* substrings; any other value raises TypeError (reported as "raise").
Substrings == {<<"see markdown below", "markdown">>}
contains(v, key) ==
    CASE v.kind = "dict" -> IF key \in DOMAIN v.fields THEN "yes" ELSE "no"
      [] v.kind = "list" ->
            IF \E i \in DOMAIN v.items : v.items[i] = Str(key) THEN "yes" ELSE "no"
      [] v.kind = "str" -> IF <<v.text, key>> \in Substrings THEN "yes" ELSE "no"
      [] OTHER -> "raise"

\* v[key] for a str key: only a dict has one.
getitem(v, key) ==
    IF v.kind = "dict" /\ key \in DOMAIN v.fields THEN v.fields[key]
    ELSE Raise(IF v.kind = "dict" THEN "KeyError" ELSE "TypeError")

\* try: body / except Exception: handler
except_Exception(body, handler) == IF body.kind = "raise" THEN handler ELSE body

\* Line 24 and line 47: `not self.api_key or self.api_key in [...]`.
Placeholders == {"your_landing_ai_key_here", "demo_key", "test_key"}
credential_missing_only_absent(key) == key = None \/ key = ""
credential_missing(key) == key = None \/ key = "" \/ key \in Placeholders

\* _fallback_extraction, lines 198-227.
BoardMember(name, role, tenure, independent) ==
    Dict([k \in {"name", "role", "tenure_years", "independent"} |->
            CASE k = "name" -> Str(name)
              [] k = "role" -> Str(role)
              [] k = "tenure_years" -> IntValue(str(tenure))
              [] OTHER -> Bool(independent)])

\* The records with the 10-K one cut to six fields, revenue_prior_1 left out.
_fallback_extraction_six(dt) ==
    CASE dt = "10-K" ->
            Dict([k \in {"revenue_current", "net_income_current", "total_assets",
                         "total_debt", "cash_equivalents",
                         "shareholders_equity"} |->
                    CASE k = "revenue_current" -> Millions(383285)
                      [] k = "net_income_current" -> Millions(96995)
                      [] k = "total_assets" -> Millions(352755)
                      [] k = "total_debt" -> Millions(111088)
                      [] k = "cash_equivalents" -> Millions(29965)
                      [] OTHER -> Millions(62146)])
      [] dt = "DEF 14A" ->
            Dict([k \in {"ceo_total_comp_current", "board_members",
                         "say_on_pay_approval_pct"} |->
                    CASE k = "ceo_total_comp_current" -> IntValue(str(63209230))
                      [] k = "board_members" ->
                            List(<<BoardMember("Tim Cook", "CEO & Director", 12, FALSE),
                                   BoardMember("Arthur Levinson", "Chairman", 21, TRUE)>>)
                      [] OTHER -> Float(<<9, 5>>, <<4>>)])
      [] OTHER ->
            Dict([k \in {"event_type", "event_date", "description",
                         "financial_impact"} |->
                    CASE k = "event_type" ->
                            Str("Results of Operations and Financial Condition")
                      [] k = "event_date" -> Str("2024-11-01")
                      [] k = "description" -> Str("Quarterly earnings announcement")
                      [] OTHER -> IntValue(<<0>>)])

\* _fallback_extraction, lines 198-227: doc_type decides, file_path is not read.
_fallback_extraction(dt) ==
    CASE dt = "10-K" ->
            Dict([k \in {"revenue_current", "revenue_prior_1", "net_income_current",
                         "total_assets", "total_debt", "cash_equivalents",
                         "shareholders_equity"} |->
                    CASE k = "revenue_current" -> Millions(383285)
                      [] k = "revenue_prior_1" -> Millions(394328)
                      [] k = "net_income_current" -> Millions(96995)
                      [] k = "total_assets" -> Millions(352755)
                      [] k = "total_debt" -> Millions(111088)
                      [] k = "cash_equivalents" -> Millions(29965)
                      [] OTHER -> Millions(62146)])
      [] dt = "DEF 14A" ->
            Dict([k \in {"ceo_total_comp_current", "board_members",
                         "say_on_pay_approval_pct"} |->
                    CASE k = "ceo_total_comp_current" -> IntValue(str(63209230))
                      [] k = "board_members" ->
                            List(<<BoardMember("Tim Cook", "CEO & Director", 12, FALSE),
                                   BoardMember("Arthur Levinson", "Chairman", 21, TRUE)>>)
                      [] OTHER -> Float(<<9, 5>>, <<4>>)])
      [] OTHER ->
            Dict([k \in {"event_type", "event_date", "description",
                         "financial_impact"} |->
                    CASE k = "event_type" ->
                            Str("Results of Operations and Financial Condition")
                      [] k = "event_date" -> Str("2024-11-01")
                      [] k = "description" -> Str("Quarterly earnings announcement")
                      [] OTHER -> IntValue(<<0>>)])

\* _is_valid_financial_data, lines 190-196.  isinstance(x, (int, float))
\* holds of a bool too.
_is_valid_financial_data_any_key(data) ==
    data.kind = "dict" /\ DOMAIN data.fields # {}
_is_valid_financial_data(data) ==
    /\ data.kind = "dict"
    /\ \E k \in {"revenue_current", "net_income_current", "total_assets"} :
          /\ k \in DOMAIN data.fields
          /\ data.fields[k].kind \in {"num", "bool"}
          /\ Positive(data.fields[k].num)

\* _convert_to_dollars, lines 164-174: int(float(value_str) * 10^k), k = 9
\* for billion/b, 6 for million/m, 0 otherwise.  ShiftLeft is the exact
\* decimal product cut at the point; the float product of the code falls
\* one short of it where value * 10^k is not exactly representable, which
\* FloatShort lists for the amounts the model feeds.
Zeros(n) == [i \in 1..n |-> 0]
RECURSIVE StripZeros(_)
StripZeros(d) == IF Len(d) > 1 /\ d[1] = 0 THEN StripZeros(Tail(d)) ELSE d
ShiftLeft(int, frac, k) ==
    StripZeros(int \o (IF Len(frac) >= k THEN SubSeq(frac, 1, k)
                       ELSE frac \o Zeros(k - Len(frac))))
RECURSIVE Decrement(_)
Decrement(d) ==
    IF d[Len(d)] > 0 THEN [d EXCEPT ![Len(d)] = @ - 1]
    ELSE Append(Decrement(SubSeq(d, 1, Len(d) - 1)), 9)
FloatShort == {<<<<4>>, <<1>>, 9>>}                      \* int(4.1 * 1e9)
unit_exponent(unit) ==
    CASE unit \in {"billion", "b"} -> 9
      [] unit \in {"million", "m"} -> 6
      [] OTHER -> 0
_convert_to_dollars(int, frac, unit) ==
    LET k == unit_exponent(unit)
        exact == ShiftLeft(int, frac, k)
    IN  IntValue(IF <<int, frac, k>> \in FloatShort THEN StripZeros(Decrement(exact))
            ELSE exact)

\* The unit group of the two patterns of lines 155-156,
\* \s*(billion|million|b|m)?, on the lowered text that follows the number:
\* the first alternative the text begins with, a word's first letter
\* included, and None when it begins with none.
unit_group(follow) ==
    CASE follow \in {"billion", "billions of dollars"} -> "billion"
      [] follow \in {"million", "million shares"} -> "million"
      [] follow \in {"b", "by segment", "basic eps"} -> "b"
      [] follow \in {"m", "margin: 5%", "more than"} -> "m"
      [] OTHER -> None

\* _extract_from_markdown, lines 143-162.  A markdown text is the pair of
\* its first revenue mention and its first net-income mention, as the two
\* searches of lines 155-156 find them: <<>> when the search fails, else
\* <<integer digits, fraction digits, the text after the number and its
\* white space>>.
Markdowns ==
    [rev : {<<>>, <<<<4>>, <<1>>, "billion">>, <<<<3, 8, 3>>, <<2, 8, 5>>, "b">>,
            <<<<5, 0, 0>>, <<>>, "margin: 5%">>, <<<<1, 0, 0>>, <<>>, "by segment">>,
            <<<<1, 2, 3, 4>>, <<>>, "">>},
     inc : {<<>>, <<<<9, 7>>, <<0>>, "billion">>, <<<<5>>, <<>>, "m">>,
            <<<<9, 7>>, <<>>, "in 2024">>}]
_extract_from_markdown(md) ==
    Dict([k \in {"revenue_current", "net_income_current", "total_assets",
                 "cash_equivalents"} |->
            CASE k = "revenue_current" /\ md.rev # <<>> ->
                    _convert_to_dollars(md.rev[1], md.rev[2], unit_group(md.rev[3]))
              [] k = "net_income_current" /\ md.inc # <<>> ->
                    _convert_to_dollars(md.inc[1], md.inc[2], unit_group(md.inc[3]))
              [] OTHER -> IntValue(<<0>>)])

\* A str value whose text is a markdown document carries it in items.
MarkdownStr(md) == Value("str", NoFields, <<md>>, N0, "markdown text")

\* _parse_api_response, lines 130-141.
RECURSIVE first_key(_, _)
first_key(response, keys) ==
    IF keys = <<>> THEN NoneValue
    ELSE LET c == contains(response, Head(keys))
         IN  CASE c = "raise" -> Raise("TypeError")
               [] c = "yes" -> Str(Head(keys))
               [] OTHER -> first_key(response, Tail(keys))

\* The same parse with 'data' tried before 'extracted_data'.
_parse_api_response_body_data_first(response) ==
    LET k == first_key(response, <<"data", "extracted_data", "result">>)
        m == contains(response, "markdown")
    IN  CASE k.kind = "raise" -> k
          [] k.kind = "str" -> getitem(response, k.text)
          [] m = "raise" -> Raise("TypeError")
          [] m = "yes" ->
                LET md == getitem(response, "markdown")
                IN  CASE md.kind = "raise" -> md
                      [] md.kind = "str" /\ md.items # <<>> ->
                            _extract_from_markdown(md.items[1])
                      [] md.kind = "str" ->
                            _extract_from_markdown([rev |-> <<>>, inc |-> <<>>])
                      [] OTHER -> Raise("AttributeError")
          [] OTHER -> response

_parse_api_response_body(response) ==
    LET k == first_key(response, <<"extracted_data", "data", "result">>)
        m == contains(response, "markdown")
    IN  CASE k.kind = "raise" -> k
          [] k.kind = "str" -> getitem(response, k.text)
          [] m = "raise" -> Raise("TypeError")
          [] m = "yes" ->
                LET md == getitem(response, "markdown")
                IN  CASE md.kind = "raise" -> md
                      [] md.kind = "str" /\ md.items # <<>> ->
                            _extract_from_markdown(md.items[1])
                      [] md.kind = "str" ->
                            _extract_from_markdown([rev |-> <<>>, inc |-> <<>>])
                      [] OTHER -> Raise("AttributeError")       \* markdown.lower()
          [] OTHER -> response
_parse_api_response(response) ==
    except_Exception(_parse_api_response_body(response), NoneValue)

\* A file path is a record whose ext is the text after its last dot, as
\* filepath builds it; NonePath is the argument None.
NonePath == [none |-> TRUE]
Path(name, ext) == [name |-> name, ext |-> ext]

\* file_path.endswith(".pdf"), the test without lower().
is_pdf_case_sensitive(path) == path.ext = "pdf"

\* file_path.lower().endswith(".pdf")
lower(ext) == IF ext \in {"PDF", "Pdf"} THEN "pdf" ELSE ext
is_pdf(path) == lower(path.ext) = "pdf"

\* A file's text is a sequence of segments [kind, n]: n characters of
\* prose, of a <script> or <style> element, or of a <table> element.
Seg(kind, n) == [kind |-> kind, n |-> n]
RECURSIVE TextLen(_)
TextLen(text) == IF text = <<>> THEN 0 ELSE Head(text).n + TextLen(Tail(text))
RECURSIVE Prefix(_, _)
Prefix(text, n) ==
    IF text = <<>> \/ n = 0 THEN <<>>
    ELSE IF Head(text).n >= n THEN <<Seg(Head(text).kind, n)>>
    ELSE <<Head(text)>> \o Prefix(Tail(text), n - Head(text).n)
RECURSIVE Join(_)
Join(parts) ==
    IF Len(parts) <= 1 THEN parts
    ELSE <<Head(parts), Seg("newline", 1)>> \o Join(Tail(parts))

SanitizeLimit == 50000                          \* content[:50000], line 90
SanitizeTables == 10                            \* financial_sections[:10], line 88

\* _prepare_document_content measuring the text before it strips the script
\* and style blocks.
_prepare_document_content_raw_length(path, f) ==
    IF path = NonePath THEN <<>>
    ELSE IF is_pdf(path) THEN <<>>
    ELSE IF ~f.exists THEN <<>>
    ELSE LET stripped == SelectSeq(f.text, LAMBDA s : s.kind \notin {"script", "style"})
             tables == SelectSeq(stripped, LAMBDA s : s.kind = "table")
         IN  IF tables # <<>> THEN Join(Take(tables, SanitizeTables))
             ELSE IF TextLen(f.text) > SanitizeLimit
                  THEN Prefix(stripped, SanitizeLimit) \o <<Seg("ellipsis", 3)>>
             ELSE stripped

\* _prepare_document_content, lines 71-96.
_prepare_document_content(path, f) ==
    IF path = NonePath THEN <<>>                \* AttributeError, line 94
    ELSE IF is_pdf(path) THEN <<>>
    ELSE IF ~f.exists THEN <<>>                 \* open() raises, line 94
    ELSE LET content == SelectSeq(f.text, LAMBDA s : s.kind \notin {"script", "style"})
             financial_sections == SelectSeq(content, LAMBDA s : s.kind = "table")
         IN  IF financial_sections # <<>>
             THEN Join(Take(financial_sections, SanitizeTables))
             ELSE IF TextLen(content) > SanitizeLimit
                  THEN Prefix(content, SanitizeLimit) \o <<Seg("ellipsis", 3)>>
             ELSE content

_get_financial_prompt == "financial"
_get_governance_prompt == "governance"

\* A request that always sends the text inline, whether or not the file is
\* there.
request_inline(key, content, prompt, path, f) ==
    [mode |-> "json", upload |-> NonePath, document |-> content,
     mime |-> "application/json", prompt |-> prompt, bearer |-> key]

\* The request of lines 104-118.
request(key, content, prompt, path, f) ==
    IF path # NonePath /\ f.exists
    THEN [mode |-> "multipart", upload |-> path, document |-> f.text,
          mime |-> IF is_pdf(path) THEN "application/pdf" ELSE "text/html",
          prompt |-> prompt, bearer |-> key]
    ELSE [mode |-> "json", upload |-> NonePath, document |-> content,
          mime |-> "application/json", prompt |-> prompt, bearer |-> key]

\* _call_landingai_api, lines 98-128.  outcome is what the endpoint did:
\* kind "network_error" (requests.post raises), "bad_json" (response.json()
\* raises) or "json", with the status and the decoded body.
response_accepted_any_status(outcome) == TRUE
response_accepted(outcome) == outcome.status = 200
_call_landingai_api_body(outcome) ==
    CASE outcome.kind = "network_error" -> Raise("ConnectionError")
      [] ~response_accepted(outcome) -> NoneValue
      [] outcome.kind = "bad_json" -> Raise("JSONDecodeError")
      [] OTHER -> _parse_api_response(outcome.body)
_call_landingai_api(outcome) ==
    except_Exception(_call_landingai_api_body(outcome), NoneValue)

\* extract_from_10k, lines 21-42: the value returned and the POSTs made.
extract_from_10k(key, path, f, outcome) ==
    IF credential_missing(key)
    THEN [result |-> _fallback_extraction("10-K"), posts |-> <<>>, content |-> <<>>]
    ELSE LET content == _prepare_document_content(path, f)
             result == _call_landingai_api(outcome)
         IN  [result |-> except_Exception(
                            IF Truthy(result) /\ _is_valid_financial_data(result)
                            THEN result ELSE _fallback_extraction("10-K"),
                            _fallback_extraction("10-K")),
              posts |-> <<request(key, content, _get_financial_prompt, path, f)>>,
              content |-> content]

\* extract_from_proxy, lines 44-65.
extract_from_proxy(key, path, f, outcome) ==
    IF credential_missing(key)
    THEN [result |-> _fallback_extraction("DEF 14A"), posts |-> <<>>,
          content |-> <<>>]
    ELSE LET content == _prepare_document_content(path, f)
             result == _call_landingai_api(outcome)
         IN  [result |-> except_Exception(
                            IF Truthy(result) THEN result
                            ELSE _fallback_extraction("DEF 14A"),
                            _fallback_extraction("DEF 14A")),
              posts |-> <<request(key, content, _get_governance_prompt, path, f)>>,
              content |-> content]

\* extract_from_8k handing the annual-report type to _fallback_extraction.
extract_from_8k_annual(path) == _fallback_extraction("10-K")

\* extract_from_8k, lines 67-69.
extract_from_8k(path) == _fallback_extraction("8-K")

NoFile == [exists |-> FALSE, text |-> <<>>]
NoOutcome == [kind |-> "none", status |-> 0, body |-> NoneValue]

ExtractIdle ==
    /\ api_key = None
    /\ doc_type = None
    /\ file_path = NonePath
    /\ file = NoFile
    /\ api_outcome = NoOutcome
    /\ ext_result = NoneValue
    /\ ext_raised = FALSE
    /\ posts = <<>>
    /\ doc_content = <<>>
    /\ epc = "idle"

(***************************************************************************)
(* MarketDataFetcher, src/tools/market_data.py.                            *)
(***************************************************************************)
\* The eleven fields of a market record and the info key each is read from.
MarketFields ==
    {"market_cap", "current_price", "shares_outstanding", "enterprise_value",
     "beta", "trailing_pe", "forward_pe", "price_to_book", "dividend_yield",
     "fifty_two_week_high", "fifty_two_week_low"}
InfoKey(k) ==
    CASE k = "market_cap" -> "marketCap"
      [] k = "current_price" -> "currentPrice"
      [] k = "shares_outstanding" -> "sharesOutstanding"
      [] k = "enterprise_value" -> "enterpriseValue"
      [] k = "beta" -> "beta"
      [] k = "trailing_pe" -> "trailingPE"
      [] k = "forward_pe" -> "forwardPE"
      [] k = "price_to_book" -> "priceToBook"
      [] k = "dividend_yield" -> "dividendYield"
      [] k = "fifty_two_week_high" -> "fiftyTwoWeekHigh"
      [] OTHER -> "fiftyTwoWeekLow"

\* info.get(key, default)
info_get(i, key, default) == IF key \in DOMAIN i.fields THEN i.fields[key] ELSE default

\* Lines 51-63: the record built from stock.info.
market_record(i) ==
    Dict([k \in MarketFields |->
            CASE k = "current_price" ->
                    info_get(i, "currentPrice",
                             info_get(i, "regularMarketPrice", IntValue(<<0>>)))
              [] k = "beta" -> info_get(i, "beta", Float(<<1>>, <<0>>))
              [] k = "dividend_yield" ->
                    LET y == info_get(i, "dividendYield", IntValue(<<0>>))
                    IN  IF Truthy(y) THEN y ELSE IntValue(<<0>>)
              [] OTHER -> info_get(i, InfoKey(k), IntValue(<<0>>))])

\* Lines 76-88: the record returned from the except branch.
ZeroRecord ==
    Dict([k \in MarketFields |->
            IF k = "beta" THEN Float(<<1>>, <<0>>) ELSE IntValue(<<0>>)])

\* Lines 68-69: market_data['market_cap']/1e9 and the :.2f format of
\* market_data['current_price'] raise on a value that is not a number.
prints_raise(record) ==
    \/ record.fields["market_cap"].kind \notin {"num", "bool"}
    \/ record.fields["current_price"].kind \notin {"num", "bool"}

\* What yf.Ticker(ticker).info does: it raises, or it is a dict.
InfoError == Raise("HTTPError")
NotAsked == [kind |-> "not_asked"]

\* get_market_data, lines 19-88, on a fetcher whose cache is c, for ticker
\* t, the data source doing i when asked: the record returned, the cache
\* left, whether the source was asked and the branch the call returned
\* from.  The record is stored (line 66) before the prints of lines 68-69.
get_market_data(c, t, i) ==
    IF t \in DOMAIN c
    THEN [result |-> c[t], cache |-> c, asked |-> FALSE, ended |-> "cached"]
    ELSE IF i = InfoError
    THEN [result |-> ZeroRecord, cache |-> c, asked |-> TRUE, ended |-> "failed"]
    ELSE IF prints_raise(market_record(i))
    THEN [result |-> ZeroRecord, cache |-> Put(c, t, market_record(i)),
          asked |-> TRUE, ended |-> "failed"]
    ELSE [result |-> market_record(i), cache |-> Put(c, t, market_record(i)),
          asked |-> TRUE, ended |-> "fetched"]

\* What the data source may serve: nothing, a full quote, a quote without
\* currentPrice, and quotes whose marketCap or currentPrice is null.
Info_full ==
    Dict([k \in {InfoKey(f) : f \in MarketFields} |->
            CASE k = "marketCap" -> Millions(3000000)
              [] k = "beta" -> Float(<<1>>, <<2>>)
              [] OTHER -> IntValue(<<2>>)])
Infos ==
    {InfoError,
     Dict(NoFields),
     Info_full,
     Dict([k \in {"marketCap", "regularMarketPrice"} |-> IntValue(<<3>>)]),
     Dict([k \in {"marketCap", "currentPrice"} |->
             IF k = "marketCap" THEN NoneValue ELSE IntValue(<<2>>)]),
     Dict([k \in {"marketCap", "currentPrice", "dividendYield"} |->
             IF k = "marketCap" THEN IntValue(<<5>>) ELSE NoneValue])}

MarketIdle ==
    /\ cache = <<>>
    /\ market_ticker = None
    /\ info = NotAsked
    /\ market_call = None

PipelineIdle ==
    /\ extracted_data = NoFields
    /\ market_data = NoFields
    /\ stage = "idle"
    /\ error = None
    /\ llm_key = None

(***************************************************************************)
(* SpecParse: the feed, the lookback and the clock are drawn in Init and   *)
(* ParseAtomFeed applies the parser.                                       *)
(***************************************************************************)
MaxEntries == 3

\* The clock: 2025-06-15, at midnight exactly (0) or later that day (1).
NowDay == DayNumber(2025, 6, 15)
Nows == {<<NowDay, 0>>, <<NowDay, 1>>}
Lookbacks == {1, 2}

D_bad      == <<2,0,2,4,Dash,1,3,Dash,0,1>>   \* 2024-13-01: no such month
D_old      == <<2,0,2,4,Dash,0,6,Dash,1,4>>   \* 2024-06-14
D_edge     == <<2,0,2,4,Dash,0,6,Dash,1,5>>   \* 2024-06-15 = now - 365 days
D_unpadded == <<2,0,2,4,Dash,9,Dash,5>>       \* 2024-9-5
D_padded   == <<2,0,2,4,Dash,1,0,Dash,0,1>>   \* 2024-10-01
D_future   == <<2,0,2,5,Dash,0,6,Dash,1,6>>   \* 2025-06-16, after now

DateTexts == {<<>>, D_bad, D_old, D_edge, D_unpadded, D_padded, D_future}

A1 == <<7, Dash, 1>>
A2 == <<7, Dash, 2>>
A3 == <<7, Dash, 3>>

AccForms ==
    { [nunber |-> <<>>, number |-> <<>>, attr |-> <<>>],
      [nunber |-> A1,   number |-> <<>>, attr |-> <<>>],
      [nunber |-> <<>>, number |-> A2,   attr |-> <<>>],
      [nunber |-> <<>>, number |-> <<>>, attr |-> A3],
      [nunber |-> A1,   number |-> <<>>, attr |-> A3] }

Hrefs == {None, "href"}

MkEntry(d, a, h) ==
    [date |-> d, nunber |-> a.nunber, number |-> a.number, attr |-> a.attr, href |-> h]

\* Every date with the plain tag encoding, and every accession encoding and
\* href on one in-window date.
FeedEntries ==
    { MkEntry(d, [nunber |-> A1, number |-> <<>>, attr |-> <<>>], None) : d \in DateTexts }
    \cup { MkEntry(D_padded, a, h) : a \in AccForms, h \in Hrefs }

Feeds == UNION { [1..n -> FeedEntries] : n \in 0..MaxEntries }

ParseInit ==
    /\ xml_content \in Feeds
    /\ years \in Lookbacks
    /\ now \in Nows
    /\ filings = <<>>
    /\ ppc = "start"

ParseIdle ==
    /\ xml_content = <<>>
    /\ years = 1
    /\ now = <<NowDay, 1>>
    /\ filings = <<>>
    /\ ppc = "idle"

ParseAtomFeed ==
    /\ ppc = "start"
    /\ filings' = _parse_atom_feed(xml_content, years, now)
    /\ ppc' = "parsed"
    /\ UNCHANGED <<xml_content, years, now>>

FetchIdle ==
    /\ ticker_arg = "AAPL"
    /\ snapshot = <<>>
    /\ ticker = "AAPL"
    /\ cik = <<>>
    /\ company_name = None
    /\ fpc = "idle"
    /\ lookup = "not_asked"
    /\ filing_types = <<>>
    /\ ti = 0
    /\ results = <<>>
    /\ located = <<>>
    /\ di = 0
    /\ downloaded = <<>>
    /\ dl = NoDownload
    /\ sent = NothingSent
    /\ files = <<>>
    /\ fetched = {}
    /\ log = <<>>

InitParse == ParseInit /\ FetchIdle /\ ExtractIdle /\ PipelineIdle /\ MarketIdle
NextParse == ParseAtomFeed /\ UNCHANGED <<fetchVars, extractVars, pipelineVars,
                   marketVars>>
SpecParse == InitParse /\ [][NextParse]_vars



(***************************************************************************)
(* Properties of _parse_atom_feed (SpecParse).                             *)
(***************************************************************************)
Parsed == ppc = "parsed"
Cutoff == cutoff_date(now, years)

\* The instant a date string denotes (midnight of its day).
InstantOf(s) == <<strptime(s).day, 0>>

NotBeforeCutoff(s) == strptime(s).ok /\ ~InstantLess(InstantOf(s), Cutoff)
NotAfterNow(s) == strptime(s).ok /\ ~InstantLess(now, InstantOf(s))

Count(seq, r) == Cardinality({i \in DOMAIN seq : seq[i] = r})
Range(seq) == {seq[i] : i \in DOMAIN seq}
SameBag(a, b) ==
    /\ Len(a) = Len(b)
    /\ \A r \in Range(a) \cup Range(b) : Count(a, r) = Count(b, r)

\* The accession identifier the parser recognises in an entry.
Recognised(e) == IF e.nunber # <<>> THEN e.nunber ELSE e.attr
AsFiling(e) == [date |-> e.date, accession |-> Recognised(e), url |-> e.href]

RECURSIVE MapFilings(_)
MapFilings(es) ==
    IF es = <<>> THEN <<>> ELSE <<AsFiling(Head(es))>> \o MapFilings(Tail(es))

\* C7 (as stated): no returned entry is dated outside
\* [now - years*365 days, now]; entries dated after now are excluded too.
C7_InsideWindow ==
    Parsed => \A i \in DOMAIN filings :
        NotBeforeCutoff(filings[i].date) /\ NotAfterNow(filings[i].date)

\* C7 (amended): no returned entry is dated before the cutoff
\* now - years*365 days; the parser applies no upper bound.
C7_NotBeforeCutoff ==
    Parsed => \A i \in DOMAIN filings : NotBeforeCutoff(filings[i].date)

C7_Witness ==
    /\ Parsed
    /\ filings # <<>>
    /\ \E i \in DOMAIN xml_content :
          /\ strptime(xml_content[i].date).ok
          /\ ~NotBeforeCutoff(xml_content[i].date)
          /\ Recognised(xml_content[i]) # <<>>

C9_ExactlyInWindow ==
    Parsed => SameBag(filings,
        MapFilings(SelectSeq(xml_content,
            LAMBDA e : /\ NotBeforeCutoff(e.date)
                       /\ NotAfterNow(e.date)
                       /\ Recognised(e) # <<>>)))

\* C9 (amended): the result holds exactly the entries with a parseable
\* date not before the cutoff and an accession identifier the parser
\* recognises, one per entry; the other entries are dropped and the parse
\* goes on.
C9_ExactlyQualifying ==
    Parsed => SameBag(filings,
        MapFilings(SelectSeq(xml_content,
            LAMBDA e : NotBeforeCutoff(e.date) /\ Recognised(e) # <<>>)))

C9_Witness ==
    /\ Parsed
    /\ Len(xml_content) = 3
    /\ xml_content[1].date = D_bad
    /\ xml_content[2] = xml_content[3]
    /\ Len(filings) = 2

\* C10 (as stated): an in-window entry whose accession is given as the
\* tag in either spelling, or as the generic attribute, is returned with
\* that accession value.
C10_EitherSpelling ==
    Parsed => \A i \in DOMAIN xml_content :
        LET e == xml_content[i]
            given == {e.nunber, e.number, e.attr} \ {<<>>}
        IN  (NotBeforeCutoff(e.date) /\ NotAfterNow(e.date) /\ given # {})
              => \E j \in DOMAIN filings :
                    filings[j].date = e.date /\ filings[j].accession \in given

\* C10 (amended): an in-window entry is returned with the value of its
\* <accession-nunber> tag, or failing that of a generic
\* accession_number= / accession-number: text; an entry whose accession
\* appears only in an <accession-number> tag is dropped.
C10_NunberTagOrAttribute ==
    Parsed => \A i \in DOMAIN xml_content :
        LET e == xml_content[i] IN
        (NotBeforeCutoff(e.date) /\ NotAfterNow(e.date)) =>
            /\ (e.nunber # <<>>) =>
                  \E j \in DOMAIN filings :
                     filings[j].date = e.date /\ filings[j].accession = e.nunber
            /\ (e.nunber = <<>> /\ e.attr # <<>>) =>
                  \E j \in DOMAIN filings :
                     filings[j].date = e.date /\ filings[j].accession = e.attr
            /\ (e.nunber = <<>> /\ e.attr = <<>> /\ e.number # <<>>) =>
                  \A j \in DOMAIN filings : filings[j].accession # e.number

C10_Witness ==
    /\ Parsed
    /\ Len(xml_content) = 3
    /\ xml_content[1].nunber = <<>> /\ xml_content[1].attr # <<>>
    /\ xml_content[2].nunber # <<>> /\ xml_content[2].attr = <<>>
    /\ xml_content[3].nunber = <<>> /\ xml_content[3].attr = <<>>
    /\ xml_content[3].number # <<>>
    /\ Len(filings) = 2
    /\ filings[1].accession = xml_content[1].attr
    /\ filings[2].accession = xml_content[2].nunber

(***************************************************************************)
(* Spec: one SECFetcher and the fetch_filings calls made on it.            *)
(***************************************************************************)
MaxFeedFetch == 4

\* filings[:3], line 108.
DownloadCap == 3

FilingTypes == <<"10-K", "DEF 14A">>

\* The two callers: get_latest_filing (one type, years=1) and
\* analyze_company's fetch_filings(types, years=3).  Each type is queried
\* once per fetcher, in the order of FilingTypes.
CallShapes(done) ==
    LET n == Len(FilingTypes)
        k == Cardinality(done)
    IN  { [types |-> SubSeq(FilingTypes, k + 1, j),
           years |-> IF j = k + 1 THEN 1 ELSE 3] : j \in (k + 1)..n }

A4 == <<7, Dash, 4>>

E_plain == MkEntry(D_padded, [nunber |-> A1, number |-> <<>>, attr |-> <<>>], None)
E_href  == MkEntry(D_padded, [nunber |-> <<>>, number |-> <<>>, attr |-> A3], "href")
E_edge  == MkEntry(D_edge, [nunber |-> A2, number |-> <<>>, attr |-> <<>>], None)
E_old   == MkEntry(D_old, [nunber |-> A4, number |-> <<>>, attr |-> <<>>], None)

\* Four filings: two of one date (one listed with the tag and no link, one
\* with the generic attribute and a link) and two older ones, a day apart,
\* which only the three-year window keeps.  A feed lists a filing once.
FetchEntries == {E_plain, E_href, E_edge, E_old}
FetchFeeds ==
    UNION { { feed \in [1..n -> FetchEntries] :
                \A i, j \in 1..n : feed[i] = feed[j] => i = j } :
            n \in 0..MaxFeedFetch }

FetchInit ==
    /\ ticker_arg \in {"aapl", "zzzz"}
    /\ snapshot = <<>>
    /\ ticker = upper(ticker_arg)
    /\ cik = <<>>
    /\ company_name = None
    /\ fpc = "idle"
    /\ lookup = "not_asked"
    /\ filing_types = <<>>
    /\ ti = 0
    /\ results = <<>>
    /\ located = <<>>
    /\ di = 0
    /\ downloaded = <<>>
    /\ dl = NoDownload
    /\ sent = NothingSent
    /\ files = <<>>
    /\ fetched = {}
    /\ log = <<>>
    /\ xml_content = <<>>
    /\ years = 1
    /\ now = <<NowDay, 1>>
    /\ filings = <<>>
    /\ ppc = "idle"

CallEntry(shape) ==
    /\ fpc \in {"idle", "returned", "raised"}
    /\ filing_types' = shape.types
    /\ years' = shape.years
    /\ ti' = 1
    /\ results' = <<>>
    /\ located' = <<>>
    /\ di' = 0
    /\ downloaded' = <<>>
    /\ dl' = NoDownload
    /\ xml_content' = <<>>
    /\ filings' = <<>>
    /\ log' = <<>>
    /\ UNCHANGED <<ticker_arg, snapshot, ticker, files, fetched, now, ppc, extractVars, pipelineVars,
                   marketVars>>

\* `if not self.cik` (line 56): None, as __init__ leaves it.
cik_unset_always(c) == TRUE
cik_unset(c) == c = <<>>

\* fetch_filings, lines 56-62, when self.cik is not set: _get_cik runs and
\* assigns cik and company_name when it finds the ticker.
FetchFilingsResolve ==
    /\ cik_unset(cik)
    /\ \E shape \in CallShapes(fetched), outcome \in RegistryOutcomes :
          LET r == _get_cik(outcome, Registry, ticker) IN
          /\ CallEntry(shape)
          /\ sent' = [NothingSent EXCEPT !.registry = 1]
          /\ lookup' = r.met
          /\ cik' = IF r.raised THEN cik ELSE r.cik
          /\ company_name' = IF r.raised THEN company_name ELSE r.company_name
          /\ fpc' = IF r.raised THEN "raised" ELSE "types"

\* fetch_filings, lines 56-62, when self.cik is set: no lookup.
FetchFilingsResolved ==
    /\ ~cik_unset(cik)
    /\ \E shape \in CallShapes(fetched) :
          /\ CallEntry(shape)
          /\ sent' = NothingSent
          /\ lookup' = "not_asked"
          /\ fpc' = "types"
          /\ UNCHANGED <<cik, company_name>>

\* What the handler of lines 116-118 leaves: the type's list is empty.
after_fetch_error_raise == "raised"
after_fetch_error == "types"

\* _fetch_filing_type up to line 107 (the feed query and its parse), and
\* for a type with no filing the rest of the loop body of fetch_filings
\* (lines 66-67).
FetchFilingType ==
    /\ fpc = "types"
    /\ ti <= Len(filing_types)
    /\ sent' = [sent EXCEPT !.feed = @ + 1]
    /\ fetched' = fetched \cup {filing_types[ti]}
    /\ \/ \* requests.get or raise_for_status raises: except -> return []
          /\ results' = Put(results, filing_types[ti], <<>>)
          /\ fpc' = after_fetch_error
          /\ ti' = ti + 1
          /\ log' = <<Pause>>
          /\ UNCHANGED <<filings, located, di, downloaded>>
       \/ \E feed \in FetchFeeds :
             LET parsed == _parse_atom_feed(feed, years, now) IN
             /\ filings' = parsed
             /\ IF parsed = <<>>
                THEN /\ results' = Put(results, filing_types[ti], <<>>)
                     /\ ti' = ti + 1
                     /\ log' = <<Pause>>
                     /\ UNCHANGED <<fpc, located, di, downloaded>>
                ELSE /\ located' = Take(parsed, DownloadCap)
                     /\ di' = 1
                     /\ downloaded' = <<>>
                     /\ fpc' = "download"
                     /\ log' = log \o <<FeedQuery(TRUE)>>
                     /\ UNCHANGED <<results, ti>>
    /\ UNCHANGED <<ticker_arg, snapshot, ticker, cik, company_name, lookup, filing_types, dl, files,
                   xml_content, years, now, ppc, extractVars, pipelineVars,
                   marketVars>>

\* `for filing in filings[:3]` (line 108): the loop moves to the next filing
\* whatever the download returned.
next_filing_again(i) == i
next_filing(i) == i + 1

\* _download_filing, lines 175-216: the GET of the primary URL; on success
\* the body is written and the record returned to the loop of line 108.
DownloadFiling ==
    /\ fpc = "download"
    /\ di <= Len(located)
    /\ LET f    == located[di]
           url  == doc_url(f, cik)
           path == filepath(ticker, filing_types[ti], f.date)
       IN  /\ sent' = [sent EXCEPT !.doc = @ + 1]
           /\ \/ /\ dl' = [filing |-> f, gets |-> <<[url |-> url, ok |-> TRUE]>>,
                           returned |-> "doc"]
                 /\ files' = write_response(files, path, TRUE, Body(url, f))
                 /\ downloaded' = Append(downloaded,
                        download_record(f, url, path, Body(url, f)))
                 /\ di' = next_filing(di)
                 /\ log' = log \o <<DocGet(f, url, TRUE),
                                     FileWrite(path, Body(url, f)), Pause>>
                 /\ UNCHANGED fpc
              \/ /\ dl' = [filing |-> f, gets |-> <<[url |-> url, ok |-> FALSE]>>,
                           returned |-> "pending"]
                 /\ fpc' = "alternate"
                 /\ files' = write_response(files, path, FALSE, Body(url, f))
                 /\ log' = log \o <<DocGet(f, url, FALSE)>>
                 /\ UNCHANGED <<downloaded, di>>
    /\ UNCHANGED <<ticker_arg, snapshot, ticker, cik, company_name, lookup,
                   filing_types, ti, results, located, fetched, parseVars, extractVars, pipelineVars,
                   marketVars>>

\* _try_alternate_url: the GET of the viewer URL; None when it fails too.
TryAlternateUrl ==
    /\ fpc = "alternate"
    /\ LET f    == located[di]
           url  == viewer_url(f, cik)
           path == filepath(ticker, filing_types[ti], f.date)
       IN  /\ sent' = [sent EXCEPT !.doc = @ + 1]
           /\ \/ /\ dl' = [dl EXCEPT !.gets = Append(@, [url |-> url, ok |-> TRUE]),
                                     !.returned = "doc"]
                 /\ files' = write_response(files, path, TRUE, Body(url, f))
                 /\ downloaded' = Append(downloaded,
                        download_record(f, url, path, Body(url, f)))
                 /\ log' = log \o <<DocGet(f, url, TRUE),
                                     FileWrite(path, Body(url, f)), Pause>>
              \/ /\ dl' = [dl EXCEPT !.gets = Append(@, [url |-> url, ok |-> FALSE]),
                                     !.returned = "None"]
                 /\ files' = write_response(files, path, FALSE, Body(url, f))
                 /\ log' = log \o <<DocGet(f, url, FALSE)>>
                 /\ UNCHANGED downloaded
    /\ di' = next_filing(di)
    /\ fpc' = "download"
    /\ UNCHANGED <<ticker_arg, snapshot, ticker, cik, company_name, lookup,
                   filing_types, ti, results, located, fetched, parseVars, extractVars, pipelineVars,
                   marketVars>>

\* Line 114 and lines 66-67: the type's list is stored, the loop goes on.
FinishFilingType ==
    /\ fpc = "download"
    /\ di > Len(located)
    /\ results' = Put(results, filing_types[ti], downloaded)
    /\ ti' = ti + 1
    /\ fpc' = "types"
    /\ located' = <<>>
    /\ di' = 0
    /\ downloaded' = <<>>
    /\ dl' = NoDownload
    /\ filings' = <<>>
    /\ log' = <<Pause>>
    /\ UNCHANGED <<ticker_arg, snapshot, ticker, cik, company_name, lookup, filing_types, sent, files,
                   fetched, xml_content, years, now, ppc, extractVars, pipelineVars,
                   marketVars>>

\* Line 69: return results.
ReturnResults ==
    /\ fpc = "types"
    /\ ti > Len(filing_types)
    /\ fpc' = "returned"
    /\ UNCHANGED <<ticker_arg, snapshot, ticker, cik, company_name, lookup,
                   filing_types, ti, results, located, di, downloaded, dl, sent, files, fetched, log,
                   parseVars, extractVars, pipelineVars,
                   marketVars>>

Init == FetchInit /\ ExtractIdle /\ PipelineIdle /\ MarketIdle
Next ==
    \/ FetchFilingsResolve
    \/ FetchFilingsResolved
    \/ FetchFilingType
    \/ DownloadFiling
    \/ TryAlternateUrl
    \/ FinishFilingType
    \/ ReturnResults
Spec == Init /\ [][Next]_vars

\* A call that has been entered keeps running: every request has a timeout
\* (lines 33, 89, 200, 230) and every sleep ends, so the step the call is at
\* is taken.  When the next call is made is left to the caller.
InCall ==
    FetchFilingType \/ DownloadFiling \/ TryAlternateUrl \/ FinishFilingType
        \/ ReturnResults
SpecFair == Spec /\ WF_vars(InCall)

(***************************************************************************)
(* Properties of fetch_filings (Spec).                                     *)
(***************************************************************************)
LookupFailures == {"absent", "network_error", "http_error", "bad_json"}

\* C1 (as stated): fetch_filings raises if and only if the ticker is absent
\* from the registry snapshot, and then before any feed query or download;
\* no other failure, a failed registry lookup included, is raised.
C1_RaisesOnlyWhenAbsent ==
    /\ (fpc = "raised") <=> (lookup = "absent")
    /\ (fpc = "raised") => (sent.feed = 0 /\ sent.doc = 0)

\* C1 (amended): fetch_filings raises if and only if _get_cik fails in that
\* call, because the ticker is absent from the snapshot or because the
\* registry lookup itself fails (network error, HTTP error, unreadable
\* body); it raises before any feed query or download, and once the CIK is
\* known no feed or download failure is raised.
C1_RaisesIffResolutionFails ==
    /\ (fpc = "raised") <=> (lookup \in LookupFailures)
    /\ (fpc = "raised") => (sent.feed = 0 /\ sent.doc = 0)

C1_Witness ==
    /\ fpc = "raised"
    /\ lookup = "absent"
    /\ sent = [registry |-> 1, feed |-> 0, doc |-> 0]

\* C6: for one filing the first GET goes to the feed's URL when the filing
\* has one, else to the archive URL made of the unpadded CIK and the
\* accession key; a second GET is issued only after the first failed and
\* goes to the viewer URL of the CIK and accession key; the download returns
\* None exactly when both failed; there is never a third GET.
C6_DownloadOrder ==
    LET g == dl.gets
        f == dl.filing
    IN  /\ Len(g) <= 2
        /\ Len(g) >= 1 =>
              IF f.url # None /\ f.url # ""
              THEN g[1].url.kind = "feed" /\ g[1].url.href = f.url
              ELSE /\ g[1].url.kind = "archive"
                   /\ Head(g[1].url.cik) # 0
                   /\ DigitsValue(g[1].url.cik, 0) = DigitsValue(cik, 0)
                   /\ g[1].url.acc = f.accession
                   /\ g[1].url.nodash = SelectSeq(f.accession, LAMBDA c : c \in 0..9)
        /\ Len(g) = 2 =>
              /\ ~g[1].ok
              /\ g[2].url.kind = "viewer"
              /\ g[2].url.cik = cik
              /\ g[2].url.acc = f.accession
        /\ (dl.returned = "None") <=> (Len(g) = 2 /\ ~g[1].ok /\ ~g[2].ok)
        /\ (dl.returned = "doc") => g[Len(g)].ok
        /\ (dl.returned = "pending" /\ Len(g) = 1) => (~g[1].ok /\ fpc = "alternate")
        /\ (Len(g) = 0) <=> (dl = NoDownload)

C6_Witness ==
    /\ dl.returned = "None"
    /\ Len(dl.gets) = 2
    /\ dl.gets[1].url.kind = "archive"
    /\ dl.gets[2].url.kind = "viewer"

\* The log's entries of one kind, in order.
Entries(kind) == SelectSeq(log, LAMBDA x : x.e = kind)

\* The filings whose download was started since the feed query: one per
\* call of _download_filing, which always begins with the primary GET.
Started == SelectSeq(Entries("get"), LAMBDA x : x.url.kind # "viewer")

\* The day a filing was filed.
FiledOn(filing) == strptime(filing.date).day

\* While a type is being downloaded, the filings tried are the first
\* of the located list, in order, never more than DownloadCap of them, and
\* no filing left out was filed after one that is tried; a filing whose
\* download failed is not made up for by a further one; the list being
\* built has one record per download that succeeded, and it is the list
\* stored for the type, so no type's list is longer than DownloadCap.
C11_Downloading ==
    /\ fpc \in {"download", "alternate"} =>
          /\ Len(located) <= DownloadCap
          /\ located = SubSeq(filings, 1, Len(located))
          /\ Len(located) < DownloadCap => located = filings
          /\ \A i \in 1..Len(located), j \in (Len(located) + 1)..Len(filings) :
                FiledOn(filings[j]) <= FiledOn(located[i])
          /\ Len(Started) <= DownloadCap
          /\ Len(Started) = (IF fpc = "alternate" THEN di ELSE di - 1)
          /\ \A k \in 1..Len(Started) : Started[k].filing = located[k]
          /\ Len(downloaded) = Len(Entries("write"))
    /\ \A t \in DOMAIN results : Len(results[t]) <= DownloadCap

C11_Stored ==
    (fpc = "download" /\ fpc' = "types") =>
        /\ results' = Put(results, filing_types[ti], downloaded)
        /\ Len(downloaded) = Len(Entries("write"))
        /\ Len(Started) = Len(located)

C12_PauseBetweenGets ==
    \A i, j \in 1..Len(log) :
        (i < j /\ log[i].e = "get" /\ log[j].e = "get") =>
            \E k \in (i + 1)..(j - 1) : log[k] = Pause

\* C13: within one call every downloaded filing has a cache file of its
\* own: two records of the list being built never name the same path, the
\* file at a record's path holds the body that record was made from, and no
\* write goes to a path already written since the type's feed query.
C13_OneFilePerFiling ==
    /\ \A i, j \in 1..Len(downloaded) :
          i # j => downloaded[i].path # downloaded[j].path
    /\ \A i \in 1..Len(downloaded) :
          files[downloaded[i].path] = Body(downloaded[i].url, downloaded[i])
    /\ \A i, j \in 1..Len(Entries("write")) :
          i # j => Entries("write")[i].path # Entries("write")[j].path

\* C14: when a download has just returned a record, from the primary or the
\* viewer URL, the record is the last of the list, it names the URL of the
\* GET that succeeded, the file at its path holds exactly the body of that
\* response, and its size is the length of that body.
C14_RoundTrip ==
    (dl.returned = "doc") =>
        LET g    == dl.gets[Len(dl.gets)]
            body == Body(g.url, dl.filing)
            r    == downloaded[Len(downloaded)]
        IN  /\ g.ok
            /\ downloaded # <<>>
            /\ r.url = g.url
            /\ r.path = filepath(ticker, filing_types[ti], dl.filing.date)
            /\ r.path \in DOMAIN files
            /\ files[r.path] = body
            /\ r.size = Len(body)
            /\ log[Len(log) - 1] = FileWrite(r.path, body)

\* A record returned from the viewer URL after the primary GET failed.
C14_Witness ==
    /\ dl.returned = "doc"
    /\ Len(dl.gets) = 2
    /\ dl.gets[2].url.kind = "viewer"
    /\ files[downloaded[Len(downloaded)].path] = dl.filing.accession \o <<0>>
    /\ downloaded[Len(downloaded)].size = Len(dl.filing.accession) + 1

\* A step taken from these positions is the entry of a new call of
\* fetch_filings (directly or through get_latest_filing).
BetweenCalls == fpc \in {"idle", "returned", "raised"}

\* Once cik is set no step changes cik or company_name, and no step
\* asks the registry: a call entered with cik set makes no lookup and sends
\* no registry request, and the steps inside a call send none either.
C20_Step ==
    (cik # <<>>) =>
        /\ cik' = cik
        /\ company_name' = company_name
        /\ BetweenCalls => (lookup' = "not_asked" /\ sent'.registry = 0)
        /\ ~BetweenCalls => sent'.registry = sent.registry

\* C20: the identity is resolved once: after the first lookup that succeeds
\* cik and company_name never change and the registry is not asked again,
\* over any sequence of fetch_filings and get_latest_filing calls.
C20_ResolvedOnce == [][C20_Step]_vars

\* A second call on a fetcher resolved by an earlier one: no lookup, no
\* registry request, the identity as it was.
C20_Witness ==
    /\ fpc = "types"
    /\ fetched # {}
    /\ ti = 1
    /\ lookup = "not_asked"
    /\ sent = NothingSent
    /\ cik = <<0, 0, 0, 0, 3, 2, 0, 1, 9, 3>>
    /\ company_name = "Apple Inc."

\* The requests of the current call, all kinds together.
Requests == sent.registry + sent.feed + sent.doc

\* The filing types the current call has queried the feed for.
TypesStarted ==
    IF fpc \in {"idle", "raised"} THEN 0
    ELSE IF fpc \in {"download", "alternate"} THEN ti
    ELSE ti - 1

C21_Requests ==
    /\ sent.registry <= 1
    /\ sent.feed = TypesStarted
    /\ sent.feed <= Len(filing_types)
    /\ sent.doc <= 2 * DownloadCap * sent.feed
    /\ Requests <= 1 + (1 + 2 * DownloadCap) * Len(filing_types)
    /\ \A i \in 1..Len(located) :
          Len(SelectSeq(Entries("get"), LAMBDA x : x.filing = located[i])) <= 2

C21_Terminates ==
    (fpc \in {"types", "download", "alternate"}) ~> (fpc \in {"returned", "raised"})

\* C21: a call of fetch_filings for n filing types sends at most one
\* registry lookup, n feed queries and two GETs for each of at most
\* DownloadCap filings of a type, 1 + 7n requests in all, never more than
\* two GETs for one filing, and a call that has been entered returns.
C21_BoundedRetries == [](C21_Requests) /\ C21_Terminates

\* A call for two types that sent every request it can: the lookup, two
\* feed queries and twelve GETs.
C21_Witness ==
    /\ fpc = "returned"
    /\ Len(filing_types) = 2
    /\ sent = [registry |-> 1, feed |-> 2, doc |-> 12]

\* The step sent a document GET, to the primary or the viewer URL, and the
\* request failed.
FailedGet ==
    /\ sent'.doc = sent.doc + 1
    /\ dl'.gets # <<>>
    /\ ~dl'.gets[Len(dl'.gets)].ok

\* C29: a download whose primary and alternate requests both fail writes
\* nothing.  Neither of its two steps, which follow one another with no
\* step between them, changes the cache: the file at the target path is
\* absent after them if it was absent, and holds what it held; and the
\* download adds no record to the list.
C29_FailedDownloadWritesNothing ==
    [][ /\ FailedGet => (files' = files /\ downloaded' = downloaded)
        /\ fpc = "alternate" => fpc' = "download" ]_vars

\* Both requests of a download have failed and the file at its path still
\* holds the document an earlier download wrote there.
C29_Witness ==
    /\ dl.returned = "None"
    /\ Len(dl.gets) = 2
    /\ ~dl.gets[1].ok /\ ~dl.gets[2].ok
    /\ LET path == filepath(ticker, filing_types[ti], dl.filing.date)
       IN  /\ path \in DOMAIN files
           /\ files[path] # <<>>

(***************************************************************************)
(* SpecExtract: one extractor, one document and one call of extract_from_* *)
(* are drawn in Init; the action applies the call against an endpoint that *)
(* answers in any of ApiOutcomes.                                          *)
(***************************************************************************)
ApiKeys == {None, ""} \cup Placeholders \cup {"DEMO_KEY", "sk-live"}
DocTypes == {"10-K", "DEF 14A", "8-K"}
FilePaths == {NonePath, Path("f", "html"), Path("F", "PDF")}
\* Twelve tables of sizes 1..12, each after a run of prose, and closing prose.
ManyTables ==
    [i \in 1..25 |->
        IF i = 25 THEN Seg("prose", 4)
        ELSE IF i % 2 = 1 THEN Seg("prose", 2)
        ELSE Seg("table", i \div 2)]
FileTexts ==
    {<<>>,
     <<Seg("prose", 100)>>,
     <<Seg("prose", 50001)>>,
     <<Seg("script", 10), Seg("prose", 20), Seg("table", 30), Seg("prose", 5),
       Seg("table", 7)>>,
     <<Seg("prose", SanitizeLimit)>>,
     <<Seg("script", 10), Seg("prose", SanitizeLimit), Seg("style", 10)>>,
     <<Seg("prose", 30000), Seg("script", 5), Seg("prose", 30000)>>,
     ManyTables}
FilesAt(path) ==
    IF path = NonePath THEN {NoFile}
    ELSE {NoFile} \cup {[exists |-> TRUE, text |-> t] : t \in FileTexts}

FinancialFields ==
    {"revenue_current", "revenue_prior_1", "net_income_current", "total_assets",
     "cash_equivalents", "total_debt", "shareholders_equity", "operating_income"}
Single(key, v) == Dict([k \in {key} |-> v])
Live_full == Dict([k \in FinancialFields |-> IntValue(<<5>>)])
Live_assets == Single("total_assets", IntValue(<<5>>))
Live_zero == Single("revenue_current", IntValue(<<0>>))
Live_text == Single("revenue_current", Str("383B"))
Live_neg == Single("net_income_current", Neg(<<5>>))
Live_bool == Single("revenue_current", Bool(TRUE))
Live_half == Single("total_assets", Float(<<0>>, <<5>>))
Live_mixed ==
    Dict([k \in {"total_assets", "revenue_current"} |->
            IF k = "total_assets" THEN IntValue(<<5>>) ELSE Str("383B")])
Live_gov == Single("ceo_total_comp_current", IntValue(<<7>>))
Live_income == Single("net_income_current", IntValue(<<5>>))
Live_zeros ==
    Dict([k \in {"revenue_current", "net_income_current", "total_assets",
                 "total_debt"} |->
            IF k = "total_debt" THEN IntValue(<<5>>) ELSE IntValue(<<0>>)])

\* The JSON bodies the endpoint may answer with.
Bodies ==
    {Live_full, Live_assets, Live_zero, Live_text, Live_neg, Live_bool, Live_half,
     Live_mixed, Live_gov, Live_income, Live_zeros,
     Single("extracted_data", Live_full), Single("data", Live_assets),
     Single("result", Live_zero), Single("data", NoneValue),
     Single("data", Str("text")), Single("result", List(<<Live_full>>)),
     Dict([k \in {"data", "extracted_data"} |->
             IF k = "data" THEN Live_zero ELSE Live_assets]),
     Single("markdown", IntValue(<<5>>)),
     Dict(NoFields), NoneValue, IntValue(<<7>>), Str("plain"),
     Str("see markdown below"), List(<<>>), List(<<Str("x")>>),
     List(<<Str("data")>>)}
    \cup {Single("markdown", MarkdownStr(md)) : md \in Markdowns}

Statuses == {200, 201, 500}
ApiOutcomes ==
    {[kind |-> "network_error", status |-> 0, body |-> NoneValue]}
    \cup {[kind |-> "bad_json", status |-> s, body |-> NoneValue] : s \in Statuses}
    \cup {[kind |-> "json", status |-> s, body |-> b] : s \in Statuses, b \in Bodies}

ExtractInit ==
    /\ api_key \in ApiKeys
    /\ doc_type \in DocTypes
    /\ file_path \in FilePaths
    /\ file \in FilesAt(file_path)
    /\ api_outcome = NoOutcome
    /\ ext_result = NoneValue
    /\ ext_raised = FALSE
    /\ posts = <<>>
    /\ doc_content = <<>>
    /\ epc = "start"

\* What a call leaves behind: r is [result, posts] of the extract operator.
Returned(r, outcome) ==
    /\ ext_result' = r.result
    /\ ext_raised' = (r.result.kind = "raise")
    /\ posts' = posts \o r.posts
    /\ doc_content' = r.content
    /\ api_outcome' = IF r.posts = <<>> THEN NoOutcome ELSE outcome
    /\ epc' = "done"
    /\ UNCHANGED <<api_key, doc_type, file_path, file, parseVars, fetchVars,
                   pipelineVars,
                   marketVars>>

ExtractFrom10K ==
    /\ epc = "start" /\ doc_type = "10-K"
    /\ \E outcome \in ApiOutcomes :
          Returned(extract_from_10k(api_key, file_path, file, outcome), outcome)

ExtractFromProxy ==
    /\ epc = "start" /\ doc_type = "DEF 14A"
    /\ \E outcome \in ApiOutcomes :
          Returned(extract_from_proxy(api_key, file_path, file, outcome), outcome)

ExtractFrom8K ==
    /\ epc = "start" /\ doc_type = "8-K"
    /\ Returned([result |-> extract_from_8k(file_path), posts |-> <<>>,
                 content |-> <<>>], NoOutcome)

\* The extractor is called again, as process_all_documents does for each
\* document: the object keeps its api_key and nothing else of the call.
CallAgain ==
    /\ epc = "done"
    /\ doc_type' \in DocTypes
    /\ file_path' \in FilePaths
    /\ file' \in FilesAt(file_path')
    /\ api_outcome' = NoOutcome
    /\ ext_result' = NoneValue
    /\ ext_raised' = FALSE
    /\ posts' = <<>>
    /\ doc_content' = <<>>
    /\ epc' = "start"
    /\ UNCHANGED <<api_key, parseVars, fetchVars, pipelineVars,
                   marketVars>>

InitExtract == ExtractInit /\ ParseIdle /\ FetchIdle /\ PipelineIdle /\ MarketIdle
NextExtract == ExtractFrom10K \/ ExtractFromProxy \/ ExtractFrom8K \/ CallAgain
SpecExtract == InitExtract /\ [][NextExtract]_vars

(***************************************************************************)
(* Properties of the extractor.                                            *)
(***************************************************************************)
Extracted(dt) == epc = "done" /\ doc_type = dt

\* The outcomes in which the endpoint delivered nothing usable: a network
\* error, a status other than 200, an undecodable body or an empty one.
CallFailed ==
    \/ api_outcome.kind \in {"network_error", "bad_json"}
    \/ api_outcome.status # 200
    \/ ~Truthy(api_outcome.body)

\* The live result was not accepted: the call failed or, for a 10-K, the
\* parsed body failed validation.
NotAccepted(dt) ==
    \/ CallFailed
    \/ dt = "10-K" /\ ~_is_valid_financial_data(_parse_api_response(api_outcome.body))

\* C3: extract_from_10k and extract_from_proxy never raise; whatever the
\* extraction call did (network error, non-200 status, undecodable or
\* empty body, failed validation) they return a record (a mapping), and
\* that record is the fallback record of the document type whenever the
\* live result was not accepted.
C3_AlwaysReturnsRecord ==
    \A dt \in {"10-K", "DEF 14A"} :
        Extracted(dt) =>
            /\ ~ext_raised
            /\ ext_result.kind = "dict"
            /\ (posts # <<>> /\ NotAccepted(dt)) => ext_result = _fallback_extraction(dt)

\* C4: every record extract_from_10k returns, live or fallback, is a
\* mapping that holds every field of the financial shape.
C4_FinancialShapeComplete ==
    Extracted("10-K") =>
        /\ ext_result.kind = "dict"
        /\ FinancialFields \subseteq DOMAIN ext_result.fields

\* C5: with the credential None, empty or a placeholder, extract_from_10k
\* and extract_from_proxy return exactly the fallback record of their
\* document type and send no POST, whatever the file path.
C5_NoCredentialNoCall ==
    \A dt \in {"10-K", "DEF 14A"} :
        (Extracted(dt) /\ api_key \in {None, "", "your_landing_ai_key_here",
                                       "demo_key", "test_key"}) =>
            /\ ext_result = _fallback_extraction(dt)
            /\ posts = <<>>
    /\ doc_content = <<>>

C5_Witness ==
    /\ Extracted("DEF 14A")
    /\ api_key = "demo_key"
    /\ file_path = Path("f", "html") /\ file.exists
    /\ ext_result = _fallback_extraction("DEF 14A")
    /\ posts = <<>>
    /\ doc_content = <<>>

\* The prompt extract_from_10k and extract_from_proxy pass on.
PromptOf(dt) == IF dt = "10-K" THEN _get_financial_prompt ELSE _get_governance_prompt

\* C15: with a usable credential a call of extract_from_10k or
\* extract_from_proxy leaves exactly one POST, whatever the endpoint did
\* with it: the file itself as a multipart upload, with the prompt as a form
\* field, when the path names a file that exists; otherwise a JSON payload of
\* the prepared text and the prompt.
C15_ExactlyOnePost ==
    (epc = "done" /\ doc_type \in {"10-K", "DEF 14A"}
       /\ api_key \notin {None, ""} \cup Placeholders) =>
        /\ Len(posts) = 1
        /\ posts[1].prompt = PromptOf(doc_type)
        /\ posts[1].bearer = api_key
        /\ IF file_path # NonePath /\ file.exists
           THEN /\ posts[1].mode = "multipart"
                /\ posts[1].upload = file_path
                /\ posts[1].document = file.text
           ELSE /\ posts[1].mode = "json"
                /\ posts[1].upload = NonePath
                /\ posts[1].document = _prepare_document_content(file_path, file)

\* A multipart upload the endpoint never answered: still one POST.
C15_Witness ==
    /\ epc = "done"
    /\ doc_type = "DEF 14A"
    /\ Len(posts) = 1
    /\ posts[1].mode = "multipart"
    /\ posts[1].prompt = _get_governance_prompt
    /\ api_outcome.kind = "network_error"

\* A record the validator is meant to let through: a mapping in which one of
\* the three fields is present with a number above zero (an int or a float,
\* of which Python's bool is a kind).
ValidatedFields == {"revenue_current", "net_income_current", "total_assets"}
Acceptable(v) ==
    /\ v.kind = "dict"
    /\ \E k \in ValidatedFields :
          /\ k \in DOMAIN v.fields
          /\ v.fields[k].kind \in {"num", "bool"}
          /\ ~v.fields[k].num.neg
          /\ \E i \in DOMAIN (v.fields[k].num.int \o v.fields[k].num.frac) :
                (v.fields[k].num.int \o v.fields[k].num.frac)[i] > 0

FellBack(dt) == Extracted(dt) /\ posts = <<>>

\* C18 (as stated): in any call of a run of calls, whatever the path and
\* whatever was extracted before, a call that falls back returns the one
\* record of its document type, and for the 10-K that record has exactly
\* the six fields revenue_current, net_income_current, total_assets,
\* total_debt, cash_equivalents and shareholders_equity.
C18_SixFieldFallback ==
    /\ \A dt \in {"DEF 14A", "8-K"} : FellBack(dt) => ext_result = _fallback_extraction(dt)
    /\ FellBack("10-K") =>
          ext_result =
             Dict([k \in {"revenue_current", "net_income_current", "total_assets",
                          "total_debt", "cash_equivalents", "shareholders_equity"} |->
                     CASE k = "revenue_current" -> IntValue(<<3,8,3,2,8,5,0,0,0,0,0,0>>)
                       [] k = "net_income_current" -> IntValue(<<9,6,9,9,5,0,0,0,0,0,0>>)
                       [] k = "total_assets" -> IntValue(<<3,5,2,7,5,5,0,0,0,0,0,0>>)
                       [] k = "total_debt" -> IntValue(<<1,1,1,0,8,8,0,0,0,0,0,0>>)
                       [] k = "cash_equivalents" -> IntValue(<<2,9,9,6,5,0,0,0,0,0,0>>)
                       [] OTHER -> IntValue(<<6,2,1,4,6,0,0,0,0,0,0>>)])

\* C18 (amended): the same, the 10-K record having a seventh field,
\* revenue_prior_1 = 394328000000.
C18_SevenFieldFallback ==
    /\ \A dt \in {"DEF 14A", "8-K"} : FellBack(dt) => ext_result = _fallback_extraction(dt)
    /\ FellBack("10-K") =>
          ext_result =
             Dict([k \in {"revenue_current", "revenue_prior_1", "net_income_current",
                          "total_assets", "total_debt", "cash_equivalents",
                          "shareholders_equity"} |->
                     CASE k = "revenue_current" -> IntValue(<<3,8,3,2,8,5,0,0,0,0,0,0>>)
                       [] k = "revenue_prior_1" -> IntValue(<<3,9,4,3,2,8,0,0,0,0,0,0>>)
                       [] k = "net_income_current" -> IntValue(<<9,6,9,9,5,0,0,0,0,0,0>>)
                       [] k = "total_assets" -> IntValue(<<3,5,2,7,5,5,0,0,0,0,0,0>>)
                       [] k = "total_debt" -> IntValue(<<1,1,1,0,8,8,0,0,0,0,0,0>>)
                       [] k = "cash_equivalents" -> IntValue(<<2,9,9,6,5,0,0,0,0,0,0>>)
                       [] OTHER -> IntValue(<<6,2,1,4,6,0,0,0,0,0,0>>)])

\* The credential is unset and the 10-K of an existing PDF falls back.
C18_Witness ==
    /\ FellBack("10-K")
    /\ api_key = None
    /\ file_path = Path("F", "PDF") /\ file.exists
    /\ "revenue_prior_1" \in DOMAIN ext_result.fields
    /\ ext_result.fields["revenue_current"] = IntValue(<<3,8,3,2,8,5,0,0,0,0,0,0>>)

\* A call of extract_from_10k or extract_from_proxy that went to the endpoint.
LiveCall ==
    /\ epc = "done"
    /\ doc_type \in {"10-K", "DEF 14A"}
    /\ api_key \notin {None, ""} \cup Placeholders

\* C22 (as stated): for a .pdf file _prepare_document_content returns the
\* document's content unchanged.
C22_PdfPassedThrough ==
    (LiveCall /\ file_path # NonePath /\ is_pdf(file_path) /\ file.exists) =>
        doc_content = file.text

\* C22 (amended): for a path ending in .pdf, whatever the case of the
\* letters, _prepare_document_content returns the empty string and reads
\* nothing; the PDF reaches the endpoint only as the multipart upload of the
\* file itself, typed application/pdf, when the file exists, and otherwise
\* the JSON payload carries the empty document.
C22_PdfReturnsEmpty ==
    (LiveCall /\ file_path # NonePath /\ file_path.ext \in {"pdf", "PDF", "Pdf"}) =>
        /\ doc_content = <<>>
        /\ IF file.exists
           THEN /\ posts[1].mode = "multipart"
                /\ posts[1].mime = "application/pdf"
                /\ posts[1].document = file.text
           ELSE /\ posts[1].mode = "json"
                /\ posts[1].document = <<>>

\* A PDF of 100 characters: nothing prepared, the file itself uploaded.
C22_Witness ==
    /\ LiveCall
    /\ file_path = Path("F", "PDF")
    /\ file.exists
    /\ file.text = <<Seg("prose", 100)>>
    /\ doc_content = <<>>
    /\ posts[1].mode = "multipart"
    /\ posts[1].mime = "application/pdf"

\* The text of the file after its script and style blocks are removed, and
\* the table fragments in it.
Stripped == SelectSeq(file.text, LAMBDA s : s.kind \notin {"script", "style"})
TablesOf(text) == SelectSeq(text, LAMBDA s : s.kind = "table")

\* A live call on an HTML or text file that exists.
Sanitized ==
    /\ LiveCall
    /\ file_path # NonePath
    /\ file_path.ext \notin {"pdf", "PDF", "Pdf"}
    /\ file.exists

\* front is the first n characters of text.
IsPrefix(front, text, n) ==
    \E k \in 1..Len(text) :
        LET before == SubSeq(text, 1, k - 1)
            rest == n - TextLen(before)
        IN  /\ rest > 0
            /\ rest <= text[k].n
            /\ front = before \o <<[kind |-> text[k].kind, n |-> rest]>>

\* C23: for an HTML or text document with no table fragment after the
\* script and style blocks are stripped, the prepared text is the stripped
\* text itself when that has at most 50,000 characters, and otherwise its
\* first 50,000 characters followed by the three-character marker "...";
\* its length never exceeds 50,003.
C23_TruncatedWithMarker ==
    (Sanitized /\ TablesOf(Stripped) = <<>>) =>
        /\ TextLen(doc_content) <= 50003
        /\ IF TextLen(Stripped) <= 50000
           THEN doc_content = Stripped
           ELSE /\ doc_content[Len(doc_content)] = [kind |-> "ellipsis", n |-> 3]
                /\ IsPrefix(SubSeq(doc_content, 1, Len(doc_content) - 1), Stripped, 50000)
                /\ TextLen(doc_content) = 50003

\* 60,000 characters of prose around a script block: the cut falls in the
\* second run of prose and the marker follows it.
C23_Witness ==
    /\ Sanitized
    /\ file.text = <<Seg("prose", 30000), Seg("script", 5), Seg("prose", 30000)>>
    /\ doc_content = <<Seg("prose", 30000), Seg("prose", 20000), Seg("ellipsis", 3)>>

\* C24: for an HTML or text document in which table fragments are found,
\* the prepared text is the first 10 fragments in document order (all of
\* them when there are fewer), each verbatim, joined by a newline; no prose
\* outside them and no 11th or later fragment is in it.
C24_FirstTenTables ==
    (Sanitized /\ TablesOf(Stripped) # <<>>) =>
        LET tables == TablesOf(Stripped)
            k == IF Len(tables) < 10 THEN Len(tables) ELSE 10
        IN  /\ Len(doc_content) = 2 * k - 1
            /\ \A i \in 1..k : doc_content[2 * i - 1] = tables[i]
            /\ \A i \in 1..(k - 1) : doc_content[2 * i] = [kind |-> "newline", n |-> 1]
            /\ \A i \in 1..Len(doc_content) : doc_content[i].kind # "prose"

\* Twelve tables in the file, ten of them in the prepared text, the last
\* one the tenth.
C24_Witness ==
    /\ Sanitized
    /\ Len(TablesOf(Stripped)) = 12
    /\ Len(doc_content) = 19
    /\ doc_content[1] = [kind |-> "table", n |-> 1]
    /\ doc_content[19] = [kind |-> "table", n |-> 10]

\* C27: whenever a live call takes the inline JSON path, which it does
\* exactly when the path is missing or names no existing file, the document
\* it sends is the empty string: the prepared text of a file that cannot be
\* read is empty, and no non-empty prepared text is sent inline.
C27_InlineDocumentEmpty ==
    LiveCall =>
        /\ posts[1].mode = "json" <=> (file_path = NonePath \/ ~file.exists)
        /\ posts[1].mode = "json" =>
               /\ doc_content = <<>>
               /\ posts[1].document = <<>>

\* An HTML path that names no file: one JSON POST with an empty document.
C27_Witness ==
    /\ LiveCall
    /\ file_path = Path("f", "html")
    /\ ~file.exists
    /\ posts[1].mode = "json"
    /\ posts[1].document = <<>>

\* C26: extract_from_8k returns the fixed event record and makes no network
\* call, for every credential, a usable one included, and every file path;
\* an 8-K is never sent to the extraction endpoint.
C26_EventNeverSent ==
    Extracted("8-K") =>
        /\ posts = <<>>
        /\ api_outcome = NoOutcome
        /\ doc_content = <<>>
        /\ ~ext_raised
        /\ ext_result =
             Dict([k \in {"event_type", "event_date", "description", "financial_impact"} |->
                     CASE k = "event_type" ->
                             Str("Results of Operations and Financial Condition")
                       [] k = "event_date" -> Str("2024-11-01")
                       [] k = "description" -> Str("Quarterly earnings announcement")
                       [] OTHER -> IntValue(<<0>>)])

\* A usable credential and an existing HTML file with tables: the 8-K call
\* still returns the event record and posts nothing.
C26_Witness ==
    /\ Extracted("8-K")
    /\ api_key = "sk-live"
    /\ file_path = Path("f", "html")
    /\ file.exists /\ file.text = ManyTables
    /\ posts = <<>>
    /\ ext_result.fields["event_date"] = Str("2024-11-01")

(***************************************************************************)
(* SpecResponse: _parse_api_response applied to one decoded response body, *)
(* drawn in Init from the bodies of SpecExtract and from the objects that  *)
(* carry any combination of the four names the parser looks for.           *)
(***************************************************************************)
ResponseKeys == {"extracted_data", "data", "result", "markdown"}

\* What a response carries under a name: a different value under each.
ValueAt(k) ==
    CASE k = "extracted_data" -> Live_full
      [] k = "data" -> Live_assets
      [] k = "result" -> Live_zero
      [] k = "markdown" -> MarkdownStr([rev |-> <<<<4>>, <<1>>, "billion">>, inc |-> <<>>])
      [] OTHER -> IntValue(<<5>>)

Responses ==
    Bodies \cup { Dict([k \in S |-> ValueAt(k)]) :
                    S \in SUBSET (ResponseKeys \cup {"revenue_current"}) }

InitResponse ==
    /\ api_key = None
    /\ doc_type = None
    /\ file_path = NonePath
    /\ file = NoFile
    /\ api_outcome \in {[kind |-> "json", status |-> 200, body |-> b] : b \in Responses}
    /\ ext_result = NoneValue
    /\ ext_raised = FALSE
    /\ posts = <<>>
    /\ doc_content = <<>>
    /\ epc = "start"
    /\ ParseIdle /\ FetchIdle /\ PipelineIdle /\ MarketIdle

\* Line 121: return self._parse_api_response(response.json()).
ParseApiResponse ==
    /\ epc = "start"
    /\ ext_result' = _parse_api_response(api_outcome.body)
    /\ epc' = "done"
    /\ UNCHANGED <<api_key, doc_type, file_path, file, api_outcome, ext_raised,
                   posts, doc_content, parseVars, fetchVars, pipelineVars,
                   marketVars>>

NextResponse == ParseApiResponse
SpecResponse == InitResponse /\ [][NextResponse]_vars

\* A name is a field of the response: the response is an object with it.
Present(v, k) == v.kind = "dict" /\ k \in DOMAIN v.fields

\* The scraping of a markdown text.
Scraped(md) ==
    IF md.items # <<>> THEN _extract_from_markdown(md.items[1])
    ELSE _extract_from_markdown([rev |-> <<>>, inc |-> <<>>])

\* A name is met by `in` on a value that is not an object: an element of a
\* list, a part of a string.
Met(v, k) ==
    \/ v.kind = "list" /\ \E i \in DOMAIN v.items : v.items[i] = Str(k)
    \/ v.kind = "str" /\ <<v.text, k>> \in Substrings

\* C16 (as stated): the value of the first of extracted_data, data, result
\* that is a field of the response; with none of them and a markdown field,
\* the scraping of its text; with none of the four, the response itself,
\* whatever it is.
C16_FixedPriority ==
    (epc = "done") =>
        LET v == api_outcome.body IN
        IF Present(v, "extracted_data") THEN ext_result = v.fields["extracted_data"]
        ELSE IF Present(v, "data") THEN ext_result = v.fields["data"]
        ELSE IF Present(v, "result") THEN ext_result = v.fields["result"]
        ELSE IF Present(v, "markdown")
             THEN v.fields["markdown"].kind = "str"
                     => ext_result = Scraped(v.fields["markdown"])
        ELSE ext_result = v

\* C16 (amended): on an object the priority is as stated, and a markdown
\* field that is not a string gives None; a response that is not an object
\* is returned unchanged only if it is None, or a list or string in which
\* `in` meets none of the four names; otherwise the result is None.
C16_FixedPriorityOnObjects ==
    (epc = "done") =>
        LET v == api_outcome.body IN
        IF v.kind = "dict"
        THEN IF Present(v, "extracted_data") THEN ext_result = v.fields["extracted_data"]
             ELSE IF Present(v, "data") THEN ext_result = v.fields["data"]
             ELSE IF Present(v, "result") THEN ext_result = v.fields["result"]
             ELSE IF Present(v, "markdown")
                  THEN ext_result = IF v.fields["markdown"].kind = "str"
                                    THEN Scraped(v.fields["markdown"])
                                    ELSE NoneValue
             ELSE ext_result = v
        ELSE IF v.kind \in {"list", "str"} /\ \A k \in ResponseKeys : ~Met(v, k)
             THEN ext_result = v
        ELSE ext_result = NoneValue

\* An object with all four names: the value under extracted_data is taken.
C16_Witness ==
    /\ epc = "done"
    /\ \A k \in ResponseKeys : Present(api_outcome.body, k)
    /\ ext_result = Live_full
    /\ ext_result # api_outcome.body.fields["data"]

\* The response is an object with the one field markdown, a markdown text.
MarkdownOnly ==
    /\ epc = "done"
    /\ api_outcome.body.kind = "dict"
    /\ DOMAIN api_outcome.body.fields = {"markdown"}
    /\ api_outcome.body.fields["markdown"].items # <<>>

\* The amount a mention stands for: its number times 10^9 when billion or b
\* follows it, times 10^6 when million or m follows it, and the number
\* itself when no suffix does; 0 without a mention.
Amount(mention) ==
    IF mention = <<>> THEN <<0>>
    ELSE ShiftLeft(mention[1], mention[2],
                   CASE mention[3] \in {"billion", "b"} -> 9
                     [] mention[3] \in {"million", "m"} -> 6
                     [] OTHER -> 0)

\* C25: scraping a markdown text gives each of revenue_current and
\* net_income_current the amount of its mention, scaled by the mention's
\* suffix (10^9 for billion or b, 10^6 for million or m, unscaled without
\* one), and 0 when the text has no mention of it; 'Net Income: $97.0
\* billion' gives net_income_current = 97000000000.
C25_ScaledBySuffix ==
    MarkdownOnly =>
        LET md == api_outcome.body.fields["markdown"].items[1]
        IN  /\ ext_result.kind = "dict"
            /\ ext_result.fields["revenue_current"] = IntValue(Amount(md.rev))
            /\ ext_result.fields["net_income_current"] = IntValue(Amount(md.inc))
            /\ md.inc = <<<<9, 7>>, <<0>>, "billion">> =>
                  ext_result.fields["net_income_current"]
                      = IntValue(<<9, 7, 0, 0, 0, 0, 0, 0, 0, 0, 0>>)

(***************************************************************************)
(* SpecResolve: a SECFetcher is constructed for a ticker and _get_cik runs *)
(* against a registry snapshot; both are drawn in Init.                    *)
(***************************************************************************)
MaxSnapshot == 3

TickerArgs == {"aapl", "AAPL", "Aapl", "aap", "AAPLX", "msft", "zzzz"}

\* Registry entries: each company once, Apple under two spellings of its
\* ticker, and two tickers that differ from AAPL by one letter at the end.
SnapshotEntries ==
    { [ticker |-> "AAPL", cik_str |-> 320193, title |-> "Apple Inc."],
      [ticker |-> "aapl", cik_str |-> 320193, title |-> "Apple Inc."],
      [ticker |-> "AAP", cik_str |-> 1158449, title |-> "Advance Auto Parts Inc"],
      [ticker |-> "AAPLX", cik_str |-> 7, title |-> "X"],
      [ticker |-> "MSFT", cik_str |-> 789019, title |-> "MICROSOFT CORP"] }

\* A snapshot lists a company once.
Snapshots ==
    UNION { { s \in [1..n -> SnapshotEntries] :
                \A i, j \in 1..n : s[i].cik_str = s[j].cik_str => i = j } :
            n \in 0..MaxSnapshot }

InitResolve ==
    /\ ticker_arg \in TickerArgs
    /\ snapshot \in Snapshots
    /\ ticker = upper(ticker_arg)
    /\ cik = <<>>
    /\ company_name = None
    /\ fpc = "idle"
    /\ lookup = "not_asked"
    /\ filing_types = <<>>
    /\ ti = 0
    /\ results = <<>>
    /\ located = <<>>
    /\ di = 0
    /\ downloaded = <<>>
    /\ dl = NoDownload
    /\ sent = NothingSent
    /\ files = <<>>
    /\ fetched = {}
    /\ log = <<>>
    /\ ParseIdle /\ ExtractIdle /\ PipelineIdle /\ MarketIdle

\* _get_cik, lines 24-49, on a fetcher whose cik is not set.
GetCik ==
    /\ fpc = "idle"
    /\ \E outcome \in RegistryOutcomes :
          LET r == _get_cik(outcome, snapshot, ticker) IN
          /\ sent' = [sent EXCEPT !.registry = @ + 1]
          /\ lookup' = r.met
          /\ cik' = r.cik
          /\ company_name' = r.company_name
          /\ fpc' = IF r.raised THEN "raised" ELSE "resolved"
    /\ UNCHANGED <<ticker_arg, snapshot, ticker, filing_types, ti, results, located,
                   di, downloaded, dl, files, fetched, log, parseVars, extractVars,
                   pipelineVars,
                   marketVars>>

NextResolve == GetCik
SpecResolve == InitResolve /\ [][NextResolve]_vars

\* Two ticker texts are the same but for the case of their letters.
CaseFold(t) ==
    CASE t \in {"aapl", "AAPL", "Aapl"} -> "aapl"
      [] t \in {"aap", "AAP"} -> "aap"
      [] t \in {"aaplx", "AAPLX"} -> "aaplx"
      [] t \in {"msft", "MSFT"} -> "msft"
      [] OTHER -> t
SameTicker(a, b) == CaseFold(a) = CaseFold(b)

\* The entries of the snapshot whose ticker is the one asked for.
Matching == {i \in DOMAIN snapshot : SameTicker(snapshot[i].ticker, ticker_arg)}

\* C19: when the registry answered, the lookup succeeds exactly when the
\* snapshot has an entry whose ticker equals the constructor's ticker but
\* for letter case (the whole ticker, not a part of it); then cik is that
\* entry's cik_str written with ten digits, zeros in front, company_name is
\* its title, and neither is empty.
C19_ResolveExactMatch ==
    (fpc \in {"resolved", "raised"} /\ lookup \in {"found", "absent"}) =>
        /\ (lookup = "found") <=> (Matching # {})
        /\ (lookup = "found") <=> (fpc = "resolved")
        /\ (lookup = "found") =>
              \E i \in Matching :
                 /\ Len(cik) = 10
                 /\ \A d \in DOMAIN cik : cik[d] \in 0..9
                 /\ DigitsValue(cik, 0) = snapshot[i].cik_str
                 /\ company_name = snapshot[i].title
                 /\ company_name # ""
                 /\ company_name # None
        /\ (lookup = "absent") => (cik = <<>> /\ company_name = None)

\* 'Aapl' asked of a snapshot listing AAP, AAPLX and then aapl / 320193 /
\* 'Apple Inc.': resolved to '0000320193' / 'Apple Inc.'.
C19_Witness ==
    /\ fpc = "resolved"
    /\ ticker_arg = "Aapl"
    /\ Len(snapshot) = 3
    /\ snapshot[1].ticker = "AAP"
    /\ snapshot[2].ticker = "AAPLX"
    /\ snapshot[3].ticker = "aapl"
    /\ cik = <<0, 0, 0, 0, 3, 2, 0, 1, 9, 3>>
    /\ company_name = "Apple Inc."

(***************************************************************************)
(* SpecMarket: get_market_data called again and again on one               *)
(* MarketDataFetcher, for any ticker, the data source answering each       *)
(* request in any of Infos.                                                *)
(***************************************************************************)
MarketTickers == {"AAPL", "MSFT", "NVDA"}

MarketInit ==
    /\ MarketIdle
    /\ ParseIdle /\ FetchIdle /\ ExtractIdle /\ PipelineIdle

\* One call of get_market_data, lines 19-88.
LookupMarketData ==
    /\ \E t \in MarketTickers, i \in Infos :
          LET call == get_market_data(cache, t, i)
          IN  /\ market_ticker' = t
              /\ market_data' = call.result
              /\ cache' = call.cache
              /\ info' = IF call.asked THEN i ELSE NotAsked
              /\ market_call' = call.ended
    /\ UNCHANGED <<extracted_data, stage, error, llm_key, parseVars, fetchVars,
                   extractVars>>

NextMarket == LookupMarketData
SpecMarket == MarketInit /\ [][NextMarket]_vars

\* C30: the cache holds successful lookups only.  A call for a ticker in the
\* cache returns the cached record and does not ask the data source; a call
\* that succeeds asks the source and stores the record it returns; a call
\* that fails asks the source, returns the zero-filled record and leaves
\* the ticker out of the cache, so that the next call for it asks again.
C30_CachesOnlySuccesses ==
    /\ market_call = "cached" =>
          /\ info = NotAsked
          /\ market_data = cache[market_ticker]
    /\ market_call = "fetched" =>
          /\ info # NotAsked
          /\ market_ticker \in DOMAIN cache
          /\ cache[market_ticker] = market_data
    /\ market_call = "failed" =>
          /\ info # NotAsked
          /\ market_data = ZeroRecord
          /\ market_ticker \notin DOMAIN cache

(***************************************************************************)
(* SpecPipeline: analyze_company (src/orchestrator.py) from stage 2 on,    *)
(* for a ticker that resolved.  Init draws what fetch_filings returned for *)
(* the three filing types of line 78: for each type the records of zero to *)
(* DownloadCap downloads.  The figures of the ratio and peer computations  *)
(* are not represented, only the reads they make and the errors those      *)
(* reads raise.                                                            *)
(***************************************************************************)
PipelineTypes == <<"10-K", "DEF 14A", "8-K">>

\* The i-th most recent filing of a type and the record of its download.
PipelineFiling(i) ==
    [date |-> <<2,0,2,5,Dash,0,i,Dash,1,5>>, accession |-> <<7, Dash, i>>,
     url |-> None]
PipelineBody(i) ==
    Body(doc_url(PipelineFiling(i), zfill(str(320193), 10)), PipelineFiling(i))
PipelineDoc(t, i) ==
    LET f == PipelineFiling(i)
    IN  download_record(f, doc_url(f, zfill(str(320193), 10)),
                        filepath("AAPL", t, f.date), PipelineBody(i))
PipelineDocs(t, n) == [i \in 1..n |-> PipelineDoc(t, n + 1 - i)]

\* The cache after n[t] downloads of each type t.
PipelineCache(n) ==
    LET kept == {tj \in (DOMAIN n) \X (1..DownloadCap) : tj[2] <= n[tj[1]]}
    IN  [p \in {PipelineDoc(tj[1], tj[2]).path : tj \in kept} |->
            PipelineBody((CHOOSE tj \in kept : PipelineDoc(tj[1], tj[2]).path = p)[2])]

\* The file fetch_filings left at a record's path.
PipelineFile(record) == [exists |-> TRUE, text |-> <<Seg("prose", record.size)>>]

PipelineOutcomes ==
    {[kind |-> "network_error", status |-> 0, body |-> NoneValue],
     [kind |-> "json", status |-> 500, body |-> Live_full],
     [kind |-> "json", status |-> 200, body |-> Live_full],
     [kind |-> "json", status |-> 200, body |-> Single("data", Live_assets)],
     [kind |-> "json", status |-> 200, body |-> Live_mixed],
     [kind |-> "json", status |-> 200, body |-> List(<<Str("x")>>)]}

\* process_all_documents looping over every 8-K of the list.
process_all_documents_every_8k(fs, key, o10k, oproxy) ==
    LET c1 == extract_from_10k(key, fs["10-K"][1].path, PipelineFile(fs["10-K"][1]), o10k)
        c2 == extract_from_proxy(key, fs["DEF 14A"][1].path,
                                 PipelineFile(fs["DEF 14A"][1]), oproxy)
        r1 == IF fs["10-K"] # <<>> THEN Put(NoFields, "10k", c1.result) ELSE NoFields
        r2 == IF fs["DEF 14A"] # <<>> THEN Put(r1, "proxy", c2.result) ELSE r1
        r3 == IF Len(fs["8-K"]) >= 1
              THEN Put(r2, "8k_0", extract_from_8k(fs["8-K"][1].path))
              ELSE r2
        r4 == IF Len(fs["8-K"]) >= 2
              THEN Put(r3, "8k_1", extract_from_8k(fs["8-K"][2].path))
              ELSE r3
    IN  [results |-> IF Len(fs["8-K"]) >= 3
                     THEN Put(r4, "8k_2", extract_from_8k(fs["8-K"][3].path))
                     ELSE r4,
         posts |-> (IF fs["10-K"] # <<>> THEN c1.posts ELSE <<>>)
                       \o (IF fs["DEF 14A"] # <<>> THEN c2.posts ELSE <<>>)]

\* process_all_documents, lines 229-243: o10k and oproxy are what the
\* endpoint does with the two POSTs it may receive.  The value is the
\* bundle returned and the POSTs the call sent.
process_all_documents(fs, key, o10k, oproxy) ==
    LET c1 == extract_from_10k(key, fs["10-K"][1].path, PipelineFile(fs["10-K"][1]), o10k)
        c2 == extract_from_proxy(key, fs["DEF 14A"][1].path,
                                 PipelineFile(fs["DEF 14A"][1]), oproxy)
        r1 == IF fs["10-K"] # <<>> THEN Put(NoFields, "10k", c1.result) ELSE NoFields
        r2 == IF fs["DEF 14A"] # <<>> THEN Put(r1, "proxy", c2.result) ELSE r1
        r3 == IF Len(fs["8-K"]) >= 1
              THEN Put(r2, "8k_0", extract_from_8k(fs["8-K"][1].path))
              ELSE r2
        r4 == IF Len(fs["8-K"]) >= 2
              THEN Put(r3, "8k_1", extract_from_8k(fs["8-K"][2].path))
              ELSE r3
    IN  [results |-> r4,
         posts |-> (IF fs["10-K"] # <<>> THEN c1.posts ELSE <<>>)
                       \o (IF fs["DEF 14A"] # <<>> THEN c2.posts ELSE <<>>)]

\* d.get(key, 0)
get(d, key) == IF key \in DOMAIN d.fields THEN d.fields[key] ELSE IntValue(<<0>>)
\* A value arithmetic accepts.
numeric(v) == v.kind \in {"num", "bool"}

\* calculate_all_ratios, src/tools/ratio_calculator.py lines 31-58: the
\* TypeError its arithmetic raises on a field that is not a number.
\* net_income only enters the division by equity, which _safe_divide
\* skips when equity is 0.
calculate_all_ratios(data) ==
    LET financial_data == IF "10k" \in DOMAIN data THEN data["10k"] ELSE Dict(NoFields)
        mkt == IF "market_data" \in DOMAIN data THEN data["market_data"]
               ELSE Dict(NoFields)
        always == {"revenue_current", "revenue_prior_1", "total_assets",
                   "total_debt", "cash_equivalents", "shareholders_equity",
                   "operating_income"}
    IN  IF \/ \E k \in always : ~numeric(get(financial_data, k))
           \/ ~numeric(get(mkt, "market_cap"))
           \/ /\ NonZero(get(financial_data, "shareholders_equity").num)
              /\ ~numeric(get(financial_data, "net_income_current"))
        THEN "TypeError"
        ELSE None

\* extracted_data['10k']['revenue_current'], lines 120 and 190.
revenue_read(data) ==
    IF "10k" \in DOMAIN data /\ "revenue_current" \in DOMAIN data["10k"].fields
    THEN None
    ELSE "KeyError"

LlmKeys == {None, "llm"}

PipelineInit ==
    /\ ticker_arg = "AAPL"
    /\ snapshot = <<>>
    /\ ticker = "AAPL"
    /\ cik = zfill(str(320193), 10)
    /\ company_name = "Apple Inc."
    /\ fpc = "returned"
    /\ lookup = "ok"
    /\ filing_types = PipelineTypes
    /\ ti = Len(PipelineTypes) + 1
    /\ \E n \in [{"10-K", "DEF 14A", "8-K"} -> 0..DownloadCap] :
          /\ results = [t \in DOMAIN n |-> PipelineDocs(t, n[t])]
          /\ files = PipelineCache(n)
          /\ sent = [registry |-> 1, feed |-> 3,
                     doc |-> n["10-K"] + n["DEF 14A"] + n["8-K"]]
    /\ located = <<>>
    /\ di = 0
    /\ downloaded = <<>>
    /\ dl = NoDownload
    /\ fetched = {"10-K", "DEF 14A", "8-K"}
    /\ log = <<Pause>>
    /\ ParseIdle
    /\ api_key \in {None, "sk-live"}
    /\ doc_type = None
    /\ file_path = NonePath
    /\ file = NoFile
    /\ api_outcome = NoOutcome
    /\ ext_result = NoneValue
    /\ ext_raised = FALSE
    /\ posts = <<>>
    /\ doc_content = <<>>
    /\ epc = "idle"
    /\ llm_key \in LlmKeys
    /\ extracted_data = NoFields
    /\ market_data = NoFields
    /\ stage = "extract"
    /\ error = None
    /\ MarketIdle

Advance(err, next) ==
    /\ error' = err
    /\ stage' = IF err = None THEN next ELSE "raised"

\* Stage 2, line 85.
ProcessAllDocuments ==
    /\ stage = "extract"
    /\ \E o10k \in PipelineOutcomes, oproxy \in PipelineOutcomes :
          LET call == process_all_documents(results, api_key, o10k, oproxy)
          IN  /\ extracted_data' = call.results
              /\ posts' = call.posts
    /\ Advance(None, "market")
    /\ UNCHANGED <<market_data, llm_key, parseVars, fetchVars, api_key, doc_type,
                   file_path, file, api_outcome, ext_result, ext_raised, doc_content,
                   epc, marketVars>>

\* Stage 3, lines 92-93.
GetMarketData ==
    /\ stage = "market"
    /\ \E i \in Infos :
          LET call == get_market_data(cache, ticker, i)
          IN  /\ market_data' = call.result
              /\ extracted_data' = Put(extracted_data, "market_data", call.result)
              /\ cache' = call.cache
              /\ info' = IF call.asked THEN i ELSE NotAsked
              /\ market_call' = call.ended
    /\ market_ticker' = ticker
    /\ Advance(None, "ratios")
    /\ UNCHANGED <<llm_key, parseVars, fetchVars, extractVars>>

\* Stage 4, lines 101-106.
CalculateRatios ==
    /\ stage = "ratios"
    /\ Advance(calculate_all_ratios(extracted_data), "peers")
    /\ UNCHANGED <<extracted_data, market_data, llm_key, parseVars, fetchVars,
                   extractVars, marketVars>>

\* Stage 5, lines 114-126.
ComparePeers ==
    /\ stage = "peers"
    /\ Advance(revenue_read(extracted_data), "thesis")
    /\ UNCHANGED <<extracted_data, market_data, llm_key, parseVars, fetchVars,
                   extractVars, marketVars>>

\* Stage 6, line 136 and lines 186-191.
GenerateBasicThesis ==
    /\ stage = "thesis"
    /\ Advance(revenue_read(extracted_data), "agents")
    /\ UNCHANGED <<extracted_data, market_data, llm_key, parseVars, fetchVars,
                   extractVars, marketVars>>

\* Stage 7, lines 143-163: with an LLM key the governance agent reads the
\* proxy record with .get (src/agents/governance_agent.py lines 27-32 and
\* 85-88), which only a dict has.
AgentAnalysis ==
    /\ stage = "agents"
    /\ Advance(IF /\ llm_key # None
                  /\ "proxy" \in DOMAIN extracted_data
                  /\ extracted_data["proxy"].kind # "dict"
               THEN "AttributeError" ELSE None, "complete")
    /\ UNCHANGED <<extracted_data, market_data, llm_key, parseVars, fetchVars,
                   extractVars, marketVars>>

InitPipeline == PipelineInit
NextPipeline ==
    \/ ProcessAllDocuments
    \/ GetMarketData
    \/ CalculateRatios
    \/ ComparePeers
    \/ GenerateBasicThesis
    \/ AgentAnalysis
SpecPipeline == InitPipeline /\ [][NextPipeline]_vars

(***************************************************************************)
(* Properties of the pipeline.                                             *)
(***************************************************************************)
\* C2: once the ticker has resolved, whatever fetch_filings located and
\* downloaded and whatever the extraction calls did, the bundle of
\* process_all_documents holds the '10k' record with the revenue_current
\* field analyze_company reads, and analyze_company raises no KeyError.
C2_BundleComplete ==
    /\ stage \notin {"idle", "extract"} =>
          /\ "10k" \in DOMAIN extracted_data
          /\ "revenue_current" \in DOMAIN extracted_data["10k"].fields
    /\ error # "KeyError"

\* The keys process_all_documents makes for the lists fetch_filings
\* returned.
BundleKeys(fs) ==
    (IF fs["10-K"] # <<>> THEN {"10k"} ELSE {})
        \cup (IF fs["DEF 14A"] # <<>> THEN {"proxy"} ELSE {})
        \cup (IF Len(fs["8-K"]) >= 1 THEN {"8k_0"} ELSE {})
        \cup (IF Len(fs["8-K"]) >= 2 THEN {"8k_1"} ELSE {})

\* The paths of the files a sequence of POSTs uploaded.
Uploads(sent_posts) == [i \in DOMAIN sent_posts |-> sent_posts[i].upload]

\* C28: process_all_documents builds the bundle from the located filings
\* only.  '10k' is a key iff the 10-K list is non-empty, 'proxy' iff the
\* DEF 14A list is, '8k_0' and '8k_1' iff the 8-K list has a first and a
\* second filing, and there is no other key; with a usable credential the
\* files sent to the endpoint are the first filing of the 10-K list and the
\* first of the DEF 14A list, in that order, and no other; the 8-K records
\* are the event record.
C28_BundleFromFirstFilings ==
    stage = "market" =>
        /\ DOMAIN extracted_data = BundleKeys(results)
        /\ Uploads(posts) =
              IF api_key = None THEN <<>>
              ELSE (IF results["10-K"] # <<>> THEN <<results["10-K"][1].path>> ELSE <<>>)
                     \o (IF results["DEF 14A"] # <<>>
                         THEN <<results["DEF 14A"][1].path>> ELSE <<>>)
        /\ \A k \in {"8k_0", "8k_1"} \cap DOMAIN extracted_data :
              extracted_data[k].fields["event_date"] = Str("2024-11-01")

\* Two 10-K filings, no proxy statement and three 8-K filings: the keys are
\* 10k, 8k_0 and 8k_1, and the one file uploaded is the first 10-K, the
\* later of the two.
C28_Witness ==
    /\ stage = "market"
    /\ api_key = "sk-live"
    /\ Len(results["10-K"]) = 2
    /\ results["DEF 14A"] = <<>>
    /\ Len(results["8-K"]) = 3
    /\ DOMAIN extracted_data = {"10k", "8k_0", "8k_1"}
    /\ Len(posts) = 1
    /\ posts[1].upload = results["10-K"][1].path
    /\ results["10-K"][1].path # results["10-K"][2].path

=============================================================================
